---- MODULE Spec2Model ----
(***************************************************************************)
(* Verification model of nvidia-installer's file utilities (files.c) and   *)
(* system utilities (misc.c).  Each operation is a small state machine     *)
(* over its own group of variables; a specification runs one operation     *)
(* from nondeterministically chosen inputs and leaves the variables of the *)
(* other operations untouched.                                             *)
(***************************************************************************)
EXTENDS Integers, Sequences, FiniteSets, TLC

\* ---- state ------------------------------------------------------------
\* nvrename / copy_file (files.c): the two files, the original source file,
\* the position in the call, locals and results
VARIABLES fs, orig, rn_pc, st_size, copied, copy_ret, rn_ret, rn_fail, rn_warn

renameVars == <<fs, orig, rn_pc, st_size, copied, copy_ret, rn_ret, rn_fail, rn_warn>>

\* remove_directory (files.c): the directory tree, the files that cannot be
\* unlinked, the stack of active calls, results and reported errors
VARIABLES tree, locked, rd_stack, rd_ret, rd_fail, rd_errors

removeVars == <<tree, locked, rd_stack, rd_ret, rd_fail, rd_errors>>

\* run_command (misc.c): the process's SIGWINCH disposition now and before
\* the call, the arguments, the position in the call, locals and results
VARIABLES sigwinch, disp0, rc_args, rc_pc, old_act, child_disp, rc_chunks,
          rc_n, handler_calls, ui_output, ui_status, rc_exit, rc_ret

runVars == <<sigwinch, disp0, rc_args, rc_pc, old_act, child_disp, rc_chunks,
             rc_n, handler_calls, ui_output, ui_status, rc_exit, rc_ret>>

\* find_system_utils (misc.c): op->utils, the loop index, the position in
\* the call, the utilities searched for so far, the errors reported, result
VARIABLES utils, fsu_i, fsu_pc, fsu_searched, fsu_errors, fsu_ret

utilVars == <<utils, fsu_i, fsu_pc, fsu_searched, fsu_errors, fsu_ret>>

\* dkms_* (misc.c): the entry point called and its arguments, the position
\* in the call, the run_dkms calls made so far, the ui traffic, the result
VARIABLES dk_op, dk_version, dk_kernel, dk_pc, dk_calls, dk_errors, dk_ui, dk_ret

dkmsVars == <<dk_op, dk_version, dk_kernel, dk_pc, dk_calls, dk_errors, dk_ui, dk_ret>>

\* check_for_nouveau (misc.c): the options, the pci devices' drivers in
\* sysfs, the two modprobe directories now and at entry, the position in
\* the call, the prompts issued, the files written, the ui traffic, result
VARIABLES nv_op, sysfs, modprobe_d, modprobe_d0, nv_pc, nv_prompts,
          nv_written, nv_ui, nv_ret

nouveauVars == <<nv_op, sysfs, modprobe_d, modprobe_d0, nv_pc, nv_prompts,
                 nv_written, nv_ui, nv_ret>>

\* select_tls_class (files.c) / tls_test (misc.c): the build's flags, the
\* TLS fields of the options now and at entry, the manifest, the calls made
\* so far, options and manifest after the first call, the temporary files
\* written, the test programs executed, the ui traffic, the manifest before
\* the last call and the verdicts of tls_test in it
VARIABLES tls_build, tls_op, tls_op0, tls_entries, tls_calls, tls_after1,
          tls_written, tls_ran, tls_ui, tls_before, tls_verdict

tlsVars == <<tls_build, tls_op, tls_op0, tls_entries, tls_calls, tls_after1,
             tls_written, tls_ran, tls_ui, tls_before, tls_verdict>>

\* set_destinations (files.c): the build's flag, the options, the
\* XDG_DATA_DIRS environment string now and at entry, the manifest now and
\* at entry, the calls made so far, the result
VARIABLES dest_build, dest_op, dest_xdg, dest_xdg0, dest_entries,
          dest_entries0, dest_calls, dest_ret

destVars == <<dest_build, dest_op, dest_xdg, dest_xdg0, dest_entries,
              dest_entries0, dest_calls, dest_ret>>

\* get_prefixes / confirm_path (files.c): the build's flag, the prefix
\* fields of the options now and at entry, the position in the call, the
\* field being confirmed when the call failed, the fields whose answer was
\* confirmed, the yes/no answers given, the result
VARIABLES pf_build, pf_op, pf_op0, pf_pc, pf_failed, pf_confirmed,
          pf_answers, pf_ret

pfxVars == <<pf_build, pf_op, pf_op0, pf_pc, pf_failed, pf_confirmed,
             pf_answers, pf_ret>>

\* extract_version_string (misc.c): the argument, the position in the call,
\* the result
VARIABLES ver_str, ver_pc, ver_ret

verVars == <<ver_str, ver_pc, ver_ret>>

\* check_installed_files_from_package (misc.c): the options, the manifest,
\* what is on disk at each entry's destination, the loop index, the position
\* in the call, the visits paid to each entry, the entries warned about, the
\* local `ret`, the verdict logged
VARIABLES chk_op, chk_entries, chk_disk, chk_i, chk_pc, chk_visits,
          chk_warned, chk_ret, chk_log

chkVars == <<chk_op, chk_entries, chk_disk, chk_i, chk_pc, chk_visits,
             chk_warned, chk_ret, chk_log>>

\* rtld_test_internal (misc.c): the variant tested, what the runtime linker
\* says of each entry, the loop index, the local `found`, the position in
\* the call, the entries compared so far, the ui traffic, the result
VARIABLES rt_compat, rt_results, rt_i, rt_found, rt_pc, rt_compared, rt_ui,
          rt_ret

rtldVars == <<rt_compat, rt_results, rt_i, rt_found, rt_pc, rt_compared,
              rt_ui, rt_ret>>

\* check_proc_modprobe_path (misc.c): the line read from
\* /proc/sys/kernel/modprobe, op->utils[MODPROBE], the paths that exist and
\* can be executed, the position in the call, the ui traffic, the result
VARIABLES mp_proc, mp_util, mp_exec, mp_pc, mp_ui, mp_ret

mpVars == <<mp_proc, mp_util, mp_exec, mp_pc, mp_ui, mp_ret>>

\* The routines that ask a yes/no question (confirm_path,
\* check_for_existing_rpms in files.c; check_runlevel, run_distro_hook,
\* check_for_nouveau in misc.c): the routine called, the position in the
\* call, the questions answered, the result
VARIABLES ask_routine, ask_pc, ask_answers, ask_ret

askVars == <<ask_routine, ask_pc, ask_answers, ask_ret>>

\* The functions that map files (copy_file, write_temp_file,
\* get_license_acceptance, process_template_file in files.c): the function
\* called, the next system call, the size of the source, the mappings made
\* and not yet given to munmap, the descriptors open, the result
VARIABLES mm_fn, mm_pc, mm_size, mm_maps, mm_fds, mm_ret

mapVars == <<mm_fn, mm_pc, mm_size, mm_maps, mm_fds, mm_ret>>

\* mkdir_recursive (files.c): the path given, the directories that exist,
\* those at entry, the directories mkdir refuses to create, the position in
\* the call, the argument of the mkdir that failed, the result
VARIABLES mk_path, mk_dirs, mk_dirs0, mk_deny, mk_pc, mk_failed, mk_ret

mkdVars == <<mk_path, mk_dirs, mk_dirs0, mk_deny, mk_pc, mk_failed, mk_ret>>

\* touch_directory (files.c): the tree, the times of its files, the clock,
\* the values time() returned, the stack of calls, the result
VARIABLES td_tree, td_times, td_clock, td_samples, td_stack, td_ret

touchVars == <<td_tree, td_times, td_clock, td_samples, td_stack, td_ret>>

\* process_libGL_la_files, process_dot_desktop_files (files.c): the
\* manifest, the manifest at entry, the template role of the pass that ran,
\* the indices the pass looked at, the position
VARIABLES tpl_entries, tpl_entries0, tpl_role, tpl_visited, tpl_pc

tplVars == <<tpl_entries, tpl_entries0, tpl_role, tpl_visited, tpl_pc>>

\* nv_strreplace (files.c): the source, the token, the replacement, the
\* position of prev_s in the source, the result built so far, the position
\* in the function
VARIABLES sr_src, sr_orig, sr_replace, sr_prev, sr_dst, sr_pc

replVars == <<sr_src, sr_orig, sr_replace, sr_prev, sr_dst, sr_pc>>

\* The operations that change the manifest (select_tls_class,
\* process_libGL_la_files, process_dot_desktop_files,
\* remove_non_kernel_module_files_from_package, set_destinations in files.c,
\* should_install_compat32_files in misc.c): the manifest, the operations
\* run so far
VARIABLES man_entries, man_ops

manVars == <<man_entries, man_ops>>

\* remove_trailing_slashes (files.c): the string given and as it is now, the
\* bytes that lie before it in memory (rts_before[k] is s[-k]), len, the
\* lowest index accessed, and the position in the function
VARIABLES rts_s0, rts_s, rts_before, rts_len, rts_low, rts_pc

rtsVars == <<rts_s0, rts_s, rts_before, rts_len, rts_low, rts_pc>>

vars == <<renameVars, removeVars, runVars, utilVars, dkmsVars, nouveauVars,
          tlsVars, destVars, pfxVars, verVars, chkVars, rtldVars, mpVars,
          askVars, mapVars, mkdVars, touchVars, tplVars, replVars, manVars,
          rtsVars>>

\* the variables an operation of one group leaves alone
notRename == <<removeVars, runVars, utilVars, dkmsVars, nouveauVars,
               tlsVars, destVars, pfxVars, verVars, chkVars, rtldVars,
               mpVars, askVars, mapVars, mkdVars, touchVars, tplVars,
               replVars, manVars, rtsVars>>

notRemove == <<renameVars, runVars, utilVars, dkmsVars, nouveauVars,
               tlsVars, destVars, pfxVars, verVars, chkVars, rtldVars,
               mpVars, askVars, mapVars, mkdVars, touchVars, tplVars,
               replVars, manVars, rtsVars>>

notRun == <<renameVars, removeVars, utilVars, dkmsVars, nouveauVars,
            tlsVars, destVars, pfxVars, verVars, chkVars, rtldVars, mpVars,
            askVars, mapVars, mkdVars, touchVars, tplVars, replVars,
            manVars, rtsVars>>

notUtil == <<renameVars, removeVars, runVars, dkmsVars, nouveauVars,
             tlsVars, destVars, pfxVars, verVars, chkVars, rtldVars,
             mpVars, askVars, mapVars, mkdVars, touchVars, tplVars,
             replVars, manVars, rtsVars>>

notDkms == <<renameVars, removeVars, runVars, utilVars, nouveauVars,
             tlsVars, destVars, pfxVars, verVars, chkVars, rtldVars,
             mpVars, askVars, mapVars, mkdVars, touchVars, tplVars,
             replVars, manVars, rtsVars>>

notNouveau == <<renameVars, removeVars, runVars, utilVars, dkmsVars,
                tlsVars, destVars, pfxVars, verVars, chkVars, rtldVars,
                mpVars, askVars, mapVars, mkdVars, touchVars, tplVars,
                replVars, manVars, rtsVars>>

notTls == <<renameVars, removeVars, runVars, utilVars, dkmsVars,
            nouveauVars, destVars, pfxVars, verVars, chkVars, rtldVars,
            mpVars, askVars, mapVars, mkdVars, touchVars, tplVars,
            replVars, manVars, rtsVars>>

notDest == <<renameVars, removeVars, runVars, utilVars, dkmsVars,
             nouveauVars, tlsVars, pfxVars, verVars, chkVars, rtldVars,
             mpVars, askVars, mapVars, mkdVars, touchVars, tplVars,
             replVars, manVars, rtsVars>>

notPfx == <<renameVars, removeVars, runVars, utilVars, dkmsVars,
            nouveauVars, tlsVars, destVars, verVars, chkVars, rtldVars,
            mpVars, askVars, mapVars, mkdVars, touchVars, tplVars,
            replVars, manVars, rtsVars>>

notVer == <<renameVars, removeVars, runVars, utilVars, dkmsVars,
            nouveauVars, tlsVars, destVars, pfxVars, chkVars, rtldVars,
            mpVars, askVars, mapVars, mkdVars, touchVars, tplVars,
            replVars, manVars, rtsVars>>

notChk == <<renameVars, removeVars, runVars, utilVars, dkmsVars,
            nouveauVars, tlsVars, destVars, pfxVars, verVars, rtldVars,
            mpVars, askVars, mapVars, mkdVars, touchVars, tplVars,
            replVars, manVars, rtsVars>>

notRtld == <<renameVars, removeVars, runVars, utilVars, dkmsVars,
             nouveauVars, tlsVars, destVars, pfxVars, verVars, chkVars,
             mpVars, askVars, mapVars, mkdVars, touchVars, tplVars,
             replVars, manVars, rtsVars>>

notMp == <<renameVars, removeVars, runVars, utilVars, dkmsVars,
           nouveauVars, tlsVars, destVars, pfxVars, verVars, chkVars,
           rtldVars, askVars, mapVars, mkdVars, touchVars, tplVars,
           replVars, manVars, rtsVars>>

notAsk == <<renameVars, removeVars, runVars, utilVars, dkmsVars,
            nouveauVars, tlsVars, destVars, pfxVars, verVars, chkVars,
            rtldVars, mpVars, mapVars, mkdVars, touchVars, tplVars,
            replVars, manVars, rtsVars>>

notMap == <<renameVars, removeVars, runVars, utilVars, dkmsVars,
            nouveauVars, tlsVars, destVars, pfxVars, verVars, chkVars,
            rtldVars, mpVars, askVars, mkdVars, touchVars, tplVars,
            replVars, manVars, rtsVars>>

notMkd == <<renameVars, removeVars, runVars, utilVars, dkmsVars,
            nouveauVars, tlsVars, destVars, pfxVars, verVars, chkVars,
            rtldVars, mpVars, askVars, mapVars, touchVars, tplVars,
            replVars, manVars, rtsVars>>

notTouch == <<renameVars, removeVars, runVars, utilVars, dkmsVars,
              nouveauVars, tlsVars, destVars, pfxVars, verVars, chkVars,
              rtldVars, mpVars, askVars, mapVars, mkdVars, tplVars,
              replVars, manVars, rtsVars>>

notTpl == <<renameVars, removeVars, runVars, utilVars, dkmsVars,
            nouveauVars, tlsVars, destVars, pfxVars, verVars, chkVars,
            rtldVars, mpVars, askVars, mapVars, mkdVars, touchVars,
            replVars, manVars, rtsVars>>

notRepl == <<renameVars, removeVars, runVars, utilVars, dkmsVars,
             nouveauVars, tlsVars, destVars, pfxVars, verVars, chkVars,
             rtldVars, mpVars, askVars, mapVars, mkdVars, touchVars,
             tplVars, manVars, rtsVars>>

notMan == <<renameVars, removeVars, runVars, utilVars, dkmsVars,
            nouveauVars, tlsVars, destVars, pfxVars, verVars, chkVars,
            rtldVars, mpVars, askVars, mapVars, mkdVars, touchVars,
            tplVars, replVars, rtsVars>>

notRts == <<renameVars, removeVars, runVars, utilVars, dkmsVars,
            nouveauVars, tlsVars, destVars, pfxVars, verVars, chkVars,
            rtldVars, mpVars, askVars, mapVars, mkdVars, touchVars,
            tplVars, replVars, manVars>>

\* ---- bounds -------------------------------------------------------------
\* longest file contents, in bytes
MaxSize == 2

\* most output chunks a child process produces
MaxChunks == 3

\* largest expected-line estimate passed as `status`
MaxStatus == 2

\* most entries of a package manifest
MaxEntries == 2

\* most calls of select_tls_class on one package
MaxTlsCalls == 2

\* most calls of set_destinations on one package
MaxDestCalls == 2

\* most pieces an input of extract_version_string is made of
MaxPieces == 4

MaxClock == 2

MaxSrc == 3

MaxDst == 8

MaxOps == 3

MaxBefore == 2

\* ---- values -------------------------------------------------------------
NULL == "NULL"
NONE == "none"

\* the C return values TRUE and FALSE of a call that has returned
T == "TRUE"

F == "FALSE"

Byte == {0, 1}

Contents == UNION {[1..n -> Byte] : n \in 0..MaxSize}

NoFile == [exists |-> FALSE, data |-> <<>>]

RegFile(d) == [exists |-> TRUE, data |-> d]

Files == {NoFile} \cup {RegFile(d) : d \in Contents}

Zeros(n) == [i \in 1..n |-> 0]

\* "the file at path p exists and holds exactly the contents of file f"
Holds(p, f) == fs[p].exists /\ fs[p].data = f.data

\* A system call either succeeds or fails with an error; when its
\* precondition `possible` is false it can only fail.
Outcomes(possible) == IF possible THEN {TRUE, FALSE} ELSE {FALSE}

\* ---- nvrename / copy_file (files.c) ------------------------------------
RenameIdle ==
    /\ fs = [src |-> NoFile, dst |-> NoFile]
    /\ orig = NoFile
    /\ rn_pc = "idle"
    /\ st_size = 0
    /\ copied = 0
    /\ copy_ret = NONE
    /\ rn_ret = NONE
    /\ rn_fail = NONE
    /\ rn_warn = FALSE

\* nvrename(op, src, dst) is entered with src and dst naming two different
\* files; src may be missing, dst may already exist with other contents.
RenameInit ==
    /\ fs \in [src : Files, dst : Files]
    /\ orig = fs.src
    /\ rn_pc = "stat"
    /\ st_size = 0
    /\ copied = 0
    /\ copy_ret = NONE
    /\ rn_ret = NONE
    /\ rn_fail = NONE
    /\ rn_warn = FALSE

\* files.c:1236  stat(src, &stat_buf) == -1 -> ui_error, return FALSE
NvrenameStat ==
    /\ rn_pc = "stat"
    /\ \E ok \in Outcomes(fs.src.exists) :
          IF ok
          THEN /\ rn_pc' = "open_src"
               /\ UNCHANGED <<rn_ret, rn_fail>>
          ELSE /\ rn_pc' = "returned"
               /\ rn_ret' = F
               /\ rn_fail' = "stat"
    /\ UNCHANGED <<fs, orig, st_size, copied, copy_ret, rn_warn>>
    /\ UNCHANGED notRename

\* copy_file(): every failing call does `goto fail` and returns FALSE.
CopyFail(call) ==
    /\ copy_ret' = F
    /\ rn_fail' = call
    /\ rn_pc' = "copy_returned"

\* files.c:215  open(srcfile, O_RDONLY)
CopyOpenSrc ==
    /\ rn_pc = "open_src"
    /\ \E ok \in Outcomes(fs.src.exists) :
          IF ok
          THEN rn_pc' = "open_dst" /\ UNCHANGED <<copy_ret, rn_fail>>
          ELSE CopyFail("open_src")
    /\ UNCHANGED <<fs, orig, st_size, copied, rn_ret, rn_warn>>
    /\ UNCHANGED notRename

\* files.c:220  open(dstfile, O_RDWR | O_CREAT | O_TRUNC, mode): on success
\* the destination exists and is empty.
CopyOpenDst ==
    /\ rn_pc = "open_dst"
    /\ \E ok \in BOOLEAN :
          IF ok
          THEN /\ fs' = [fs EXCEPT !.dst = RegFile(<<>>)]
               /\ rn_pc' = "fstat"
               /\ UNCHANGED <<copy_ret, rn_fail>>
          ELSE /\ CopyFail("open_dst")
               /\ UNCHANGED fs
    /\ UNCHANGED <<orig, st_size, copied, rn_ret, rn_warn>>
    /\ UNCHANGED notRename

\* files.c:225-231  fstat(src_fd); a zero-sized source skips to done
CopyFstat ==
    /\ rn_pc = "fstat"
    /\ \E ok \in BOOLEAN :
          IF ok
          THEN /\ st_size' = Len(fs.src.data)
               /\ rn_pc' = IF Len(fs.src.data) = 0 THEN "done" ELSE "lseek"
               /\ UNCHANGED <<copy_ret, rn_fail>>
          ELSE /\ CopyFail("fstat")
               /\ UNCHANGED st_size
    /\ UNCHANGED <<fs, orig, copied, rn_ret, rn_warn>>
    /\ UNCHANGED notRename

\* files.c:232  lseek(dst_fd, st_size - 1, SEEK_SET)
CopyLseek ==
    /\ rn_pc = "lseek"
    /\ \E ok \in BOOLEAN :
          IF ok
          THEN rn_pc' = "write" /\ UNCHANGED <<copy_ret, rn_fail>>
          ELSE CopyFail("lseek")
    /\ UNCHANGED <<fs, orig, st_size, copied, rn_ret, rn_warn>>
    /\ UNCHANGED notRename

\* files.c:237  write(dst_fd, "", 1) at offset st_size - 1: the destination
\* becomes st_size bytes long, all zero.
CopyWrite ==
    /\ rn_pc = "write"
    /\ \E ok \in BOOLEAN :
          IF ok
          THEN /\ fs' = [fs EXCEPT !.dst = RegFile(Zeros(st_size))]
               /\ rn_pc' = "mmap_src"
               /\ UNCHANGED <<copy_ret, rn_fail>>
          ELSE /\ CopyFail("write")
               /\ UNCHANGED fs
    /\ UNCHANGED <<orig, st_size, copied, rn_ret, rn_warn>>
    /\ UNCHANGED notRename

\* files.c:242  mmap of the source
CopyMmapSrc ==
    /\ rn_pc = "mmap_src"
    /\ \E ok \in BOOLEAN :
          IF ok
          THEN rn_pc' = "mmap_dst" /\ UNCHANGED <<copy_ret, rn_fail>>
          ELSE CopyFail("mmap_src")
    /\ UNCHANGED <<fs, orig, st_size, copied, rn_ret, rn_warn>>
    /\ UNCHANGED notRename

\* files.c:248  mmap of the destination
CopyMmapDst ==
    /\ rn_pc = "mmap_dst"
    /\ \E ok \in BOOLEAN :
          IF ok
          THEN rn_pc' = "memcpy" /\ UNCHANGED <<copy_ret, rn_fail>>
          ELSE CopyFail("mmap_dst")
    /\ UNCHANGED <<fs, orig, st_size, copied, rn_ret, rn_warn>>
    /\ UNCHANGED notRename

\* files.c:255  memcpy(dst, src, st_size) through the shared mappings, one
\* byte per step so that a partially written destination is a state.
CopyMemcpy ==
    /\ rn_pc = "memcpy"
    /\ IF copied < st_size
       THEN /\ fs' = [fs EXCEPT !.dst.data[copied + 1] = fs.src.data[copied + 1]]
            /\ copied' = copied + 1
            /\ UNCHANGED rn_pc
       ELSE /\ rn_pc' = "munmap_src"
            /\ UNCHANGED <<fs, copied>>
    /\ UNCHANGED <<orig, st_size, copy_ret, rn_ret, rn_fail, rn_warn>>
    /\ UNCHANGED notRename

\* files.c:257  munmap(src)
CopyMunmapSrc ==
    /\ rn_pc = "munmap_src"
    /\ \E ok \in BOOLEAN :
          IF ok
          THEN rn_pc' = "munmap_dst" /\ UNCHANGED <<copy_ret, rn_fail>>
          ELSE CopyFail("munmap_src")
    /\ UNCHANGED <<fs, orig, st_size, copied, rn_ret, rn_warn>>
    /\ UNCHANGED notRename

\* files.c:262  munmap(dst)
CopyMunmapDst ==
    /\ rn_pc = "munmap_dst"
    /\ \E ok \in BOOLEAN :
          IF ok
          THEN rn_pc' = "done" /\ UNCHANGED <<copy_ret, rn_fail>>
          ELSE CopyFail("munmap_dst")
    /\ UNCHANGED <<fs, orig, st_size, copied, rn_ret, rn_warn>>
    /\ UNCHANGED notRename

\* files.c:268-279  done: fchmod, close, close, return TRUE
CopyDone ==
    /\ rn_pc = "done"
    /\ copy_ret' = T
    /\ rn_pc' = "copy_returned"
    /\ UNCHANGED <<fs, orig, st_size, copied, rn_ret, rn_fail, rn_warn>>
    /\ UNCHANGED notRename

\* Faulty variant: the result of copy_file is ignored.
NvrenameAfterCopy_IgnoreResult ==
    /\ rn_pc = "copy_returned"
    /\ rn_pc' = "utime"
    /\ UNCHANGED <<fs, orig, st_size, copied, copy_ret, rn_ret, rn_fail, rn_warn>>
    /\ UNCHANGED notRename

\* files.c:1242  if (!copy_file(op, src, dst, stat_buf.st_mode)) return FALSE;
NvrenameAfterCopy ==
    /\ rn_pc = "copy_returned"
    /\ IF copy_ret = T
       THEN rn_pc' = "utime" /\ UNCHANGED rn_ret
       ELSE rn_pc' = "returned" /\ rn_ret' = F
    /\ UNCHANGED <<fs, orig, st_size, copied, copy_ret, rn_fail, rn_warn>>
    /\ UNCHANGED notRename

\* files.c:1247  utime(dst, &utime_buf) == -1 -> ui_warn, carry on
NvrenameUtime ==
    /\ rn_pc = "utime"
    /\ \E ok \in BOOLEAN : rn_warn' = ~ok
    /\ rn_pc' = "unlink"
    /\ UNCHANGED <<fs, orig, st_size, copied, copy_ret, rn_ret, rn_fail>>
    /\ UNCHANGED notRename

\* files.c:1252-1257  unlink(src) == -1 -> ui_error, return FALSE; else TRUE
NvrenameUnlink ==
    /\ rn_pc = "unlink"
    /\ \E ok \in Outcomes(fs.src.exists) :
          IF ok
          THEN /\ fs' = [fs EXCEPT !.src = NoFile]
               /\ rn_ret' = T
               /\ UNCHANGED rn_fail
          ELSE /\ rn_ret' = F
               /\ rn_fail' = "unlink"
               /\ UNCHANGED fs
    /\ rn_pc' = "returned"
    /\ UNCHANGED <<orig, st_size, copied, copy_ret, rn_warn>>
    /\ UNCHANGED notRename

RenameNext ==
    \/ NvrenameStat
    \/ CopyOpenSrc
    \/ CopyOpenDst
    \/ CopyFstat
    \/ CopyLseek
    \/ CopyWrite
    \/ CopyMmapSrc
    \/ CopyMmapDst
    \/ CopyMemcpy
    \/ CopyMunmapSrc
    \/ CopyMunmapDst
    \/ CopyDone
    \/ NvrenameAfterCopy
    \/ NvrenameUtime
    \/ NvrenameUnlink

\* ---- remove_directory (files.c) -----------------------------------------
\* The victim directory "v" with two plain children "a" and "b", a
\* subdirectory "s", and a file "c" inside the subdirectory.
Nodes == {"v", "a", "b", "s", "c"}

Dirs == {"v", "s"}

Parent(n) == CASE n = "c" -> "s"
               [] n = "v" -> "/"
               [] OTHER -> "v"

\* what each node can be: the victim may be missing or a plain file
KindsOf(n) == CASE n = "v" -> {"none", "file", "dir"}
                [] n = "s" -> {"none", "dir"}
                [] OTHER -> {"none", "file"}

\* the entries readdir(3) reports for directory d (without "." and "..")
Entries(d) == {n \in Nodes : Parent(n) = d /\ tree[n] # "none"}

RemoveIdle ==
    /\ tree = [n \in Nodes |-> "none"]
    /\ locked = {}
    /\ rd_stack = <<>>
    /\ rd_ret = [d \in Dirs |-> NONE]
    /\ rd_fail = [d \in Dirs |-> NONE]
    /\ rd_errors = {}

\* remove_directory(op, "v") is entered on any tree of this shape; `locked`
\* are the files whose unlink(2) fails (e.g. EPERM).
RemoveInit ==
    /\ tree \in {t \in [Nodes -> {"none", "file", "dir"}] :
                   /\ \A n \in Nodes : t[n] \in KindsOf(n)
                   /\ \A n \in Nodes \ {"v"} :
                         t[n] # "none" => t[Parent(n)] = "dir"}
    /\ locked \in SUBSET {n \in Nodes : tree[n] = "file" /\ n # "v"}
    /\ rd_stack = <<[dir |-> "v", opened |-> FALSE, todo |-> {}]>>
    /\ rd_ret = [d \in Dirs |-> NONE]
    /\ rd_fail = [d \in Dirs |-> NONE]
    /\ rd_errors = {}

RdTop == rd_stack[Len(rd_stack)]

RdPop == SubSeq(rd_stack, 1, Len(rd_stack) - 1)

\* `ui_error(...); return FALSE;` of the call on top of the stack
RdReturnError(call, path) ==
    /\ rd_errors' = rd_errors \cup {<<call, path>>}
    /\ rd_fail' = [rd_fail EXCEPT ![RdTop.dir] = call]
    /\ rd_ret' = [rd_ret EXCEPT ![RdTop.dir] = F]
    /\ rd_stack' = RdPop

\* files.c:66-79  lstat(victim), S_ISDIR, opendir(victim)
RdOpen ==
    /\ rd_stack # <<>>
    /\ ~RdTop.opened
    /\ LET d == RdTop.dir IN
       \/ /\ \E ok \in Outcomes(tree[d] # "none") : ~ok
          /\ RdReturnError("lstat", d)
       \/ /\ tree[d] = "file"
          /\ RdReturnError("notdir", d)
       \/ /\ tree[d] = "dir"
          /\ \E ok \in BOOLEAN :
                IF ok
                THEN /\ rd_stack' = [rd_stack EXCEPT ![Len(rd_stack)] =
                           [dir |-> d, opened |-> TRUE, todo |-> Entries(d)]]
                     /\ UNCHANGED <<rd_ret, rd_fail, rd_errors>>
                ELSE RdReturnError("opendir", d)
    /\ UNCHANGED <<tree, locked>>
    /\ UNCHANGED notRemove

\* Faulty variant: a failing unlink aborts the call like a failing lstat does.
RdUnlinkFailed_Abort(e) ==
    /\ RdReturnError("unlink", e)
    /\ UNCHANGED tree

\* files.c:99-102  unlink(filename) != 0 -> ui_error, and the loop goes on
RdUnlinkFailed(e) ==
    /\ rd_errors' = rd_errors \cup {<<"unlink", e>>}
    /\ rd_stack' = [rd_stack EXCEPT ![Len(rd_stack)].todo = @ \ {e}]
    /\ UNCHANGED <<tree, rd_ret, rd_fail>>

\* files.c:81-105  one iteration of the readdir loop on entry e: lstat it,
\* recurse into a directory (the result of the recursive call is dropped),
\* unlink anything else.
RdEntry ==
    /\ rd_stack # <<>>
    /\ RdTop.opened
    /\ \E e \in RdTop.todo :
          \/ /\ RdReturnError("lstat", e)
             /\ UNCHANGED tree
          \/ /\ tree[e] = "dir"
             /\ rd_stack' = Append(
                    [rd_stack EXCEPT ![Len(rd_stack)].todo = @ \ {e}],
                    [dir |-> e, opened |-> FALSE, todo |-> {}])
             /\ UNCHANGED <<tree, rd_ret, rd_fail, rd_errors>>
          \/ /\ tree[e] = "file"
             /\ IF e \in locked
                THEN RdUnlinkFailed(e)
                ELSE /\ tree' = [tree EXCEPT ![e] = "none"]
                     /\ rd_stack' = [rd_stack EXCEPT ![Len(rd_stack)].todo = @ \ {e}]
                     /\ UNCHANGED <<rd_ret, rd_fail, rd_errors>>
    /\ UNCHANGED locked
    /\ UNCHANGED notRemove

\* files.c:107-113  rmdir(victim): fails on a directory that is not empty
RdRmdir ==
    /\ rd_stack # <<>>
    /\ RdTop.opened
    /\ RdTop.todo = {}
    /\ LET d == RdTop.dir IN
       \E ok \in Outcomes(Entries(d) = {}) :
          IF ok
          THEN /\ tree' = [tree EXCEPT ![d] = "none"]
               /\ rd_ret' = [rd_ret EXCEPT ![d] = T]
               /\ rd_stack' = RdPop
               /\ UNCHANGED <<rd_fail, rd_errors>>
          ELSE /\ RdReturnError("rmdir", d)
               /\ UNCHANGED tree
    /\ UNCHANGED locked
    /\ UNCHANGED notRemove

RemoveNext ==
    \/ RdOpen
    \/ RdEntry
    \/ RdRmdir

\* ---- run_command (misc.c) ------------------------------------------------
\* A signal disposition: default, ignore, or a handler function.  In C
\* SIG_DFL is the null handler pointer and SIG_IGN is the constant 1.
SIG_DFL == "SIG_DFL"

SIG_IGN == "SIG_IGN"

HANDLER == "handler"

Dispositions == {SIG_DFL, SIG_IGN, HANDLER}

\* "no exit status / return value yet"
NoStatus == -1

\* the errno left by a failed popen(3), e.g. ENOMEM
ERRNO == 12

RunArgs == [workaround : BOOLEAN, want_data : BOOLEAN, output : BOOLEAN,
            status : 0..MaxStatus, redirect : BOOLEAN]

RunIdle ==
    /\ sigwinch = SIG_DFL
    /\ disp0 = SIG_DFL
    /\ rc_args = [workaround |-> FALSE, want_data |-> FALSE, output |-> FALSE,
                  status |-> 0, redirect |-> FALSE]
    /\ rc_pc = "idle"
    /\ old_act = NONE
    /\ child_disp = NONE
    /\ rc_chunks = 0
    /\ rc_n = 0
    /\ handler_calls = 0
    /\ ui_output = 0
    /\ ui_status = 0
    /\ rc_exit = NoStatus
    /\ rc_ret = NoStatus

\* run_command(op, cmd, data, output, status, redirect) is entered with any
\* SIGWINCH disposition in force and any arguments.
RunInit ==
    /\ sigwinch \in Dispositions
    /\ disp0 = sigwinch
    /\ rc_args \in RunArgs
    /\ rc_pc = "sigaction"
    /\ old_act = NONE
    /\ child_disp = NONE
    /\ rc_chunks = 0
    /\ rc_n = 0
    /\ handler_calls = 0
    /\ ui_output = 0
    /\ ui_status = 0
    /\ rc_exit = NoStatus
    /\ rc_ret = NoStatus

\* misc.c:340-347  with the workaround, ignore SIGWINCH and save the old
\* action.  sigaction(2) on SIGWINCH with valid pointers cannot fail (EINVAL
\* is only for invalid or uncatchable signals), so the `< 0` branch is dead.
RcIgnoreSigwinch ==
    /\ rc_pc = "sigaction"
    /\ IF rc_args.workaround
       THEN /\ old_act' = sigwinch
            /\ sigwinch' = SIG_IGN
       ELSE UNCHANGED <<old_act, sigwinch>>
    /\ rc_pc' = "popen"
    /\ UNCHANGED <<disp0, rc_args, child_disp, rc_chunks, rc_n, handler_calls,
                   ui_output, ui_status, rc_exit, rc_ret>>
    /\ UNCHANGED notRun

\* misc.c:354-358  popen(cmd2, "r"): the child inherits the disposition in
\* force; on failure run_command returns errno at once.
RcPopen ==
    /\ rc_pc = "popen"
    /\ \E ok \in BOOLEAN :
          IF ok
          THEN /\ child_disp' = sigwinch
               /\ rc_pc' = "read"
               /\ UNCHANGED rc_ret
          ELSE /\ rc_ret' = ERRNO
               /\ rc_pc' = "returned"
               /\ UNCHANGED child_disp
    /\ UNCHANGED <<sigwinch, disp0, rc_args, old_act, rc_chunks, rc_n,
                   handler_calls, ui_output, ui_status, rc_exit>>
    /\ UNCHANGED notRun

\* misc.c:390-400  the saved handler is called only inside `if (status)`,
\* when the workaround is on and the saved handler pointer is not null
HandlerCalled ==
    rc_args.status # 0 /\ rc_args.workaround /\ old_act # SIG_DFL

\* misc.c:384-403  fgets() returned a chunk: stream it to the ui if asked,
\* count it, and if `status` is set bump the line counter, call the saved
\* SIGWINCH handler and update the progress.  Calling the "handler" SIG_IGN
\* (the address 1) crashes the process.
RcReadChunk ==
    /\ rc_pc = "read"
    /\ rc_chunks < MaxChunks
    /\ rc_chunks' = rc_chunks + 1
    /\ ui_output' = IF rc_args.output THEN ui_output + 1 ELSE ui_output
    /\ IF rc_args.status # 0
       THEN rc_n' = IF rc_n + 1 > rc_args.status THEN rc_args.status ELSE rc_n + 1
       ELSE UNCHANGED rc_n
    /\ IF HandlerCalled /\ old_act = SIG_IGN
       THEN /\ rc_pc' = "crashed"
            /\ UNCHANGED <<handler_calls, ui_status>>
       ELSE /\ handler_calls' = IF HandlerCalled THEN handler_calls + 1
                                ELSE handler_calls
            /\ ui_status' = IF rc_args.status # 0 THEN ui_status + 1 ELSE ui_status
            /\ UNCHANGED rc_pc
    /\ UNCHANGED <<sigwinch, disp0, rc_args, old_act, child_disp, rc_exit, rc_ret>>
    /\ UNCHANGED notRun

\* misc.c:384,408  fgets() returned NULL (end of file); pclose(stream)
\* yields the child's exit status
RcEofPclose ==
    /\ rc_pc = "read"
    /\ \E st \in {0, 1} : rc_exit' = st
    /\ rc_pc' = "restore"
    /\ UNCHANGED <<sigwinch, disp0, rc_args, old_act, child_disp, rc_chunks,
                   rc_n, handler_calls, ui_output, ui_status, rc_ret>>
    /\ UNCHANGED notRun

\* Faulty variant: the disposition is put back only after a successful child.
RcRestore_OnlyOnSuccess ==
    /\ rc_pc = "restore"
    /\ sigwinch' = IF rc_args.workaround /\ rc_exit = 0 THEN old_act ELSE sigwinch
    /\ rc_ret' = rc_exit
    /\ rc_pc' = "returned"
    /\ UNCHANGED <<disp0, rc_args, old_act, child_disp, rc_chunks, rc_n,
                   handler_calls, ui_output, ui_status, rc_exit>>
    /\ UNCHANGED notRun

\* misc.c:414-424  with the workaround, sigaction(SIGWINCH, &old_act, NULL);
\* hand over or free the buffer; return the status from pclose
RcRestore ==
    /\ rc_pc = "restore"
    /\ sigwinch' = IF rc_args.workaround THEN old_act ELSE sigwinch
    /\ rc_ret' = rc_exit
    /\ rc_pc' = "returned"
    /\ UNCHANGED <<disp0, rc_args, old_act, child_disp, rc_chunks, rc_n,
                   handler_calls, ui_output, ui_status, rc_exit>>
    /\ UNCHANGED notRun

RunNext ==
    \/ RcIgnoreSigwinch
    \/ RcPopen
    \/ RcReadChunk
    \/ RcEofPclose
    \/ RcRestore

\* ---- find_system_utils (misc.c) ------------------------------------------
\* misc.c:492-503
needed_utils == <<
    [util |-> "ldconfig", package |-> "glibc"],
    [util |-> "ldd",      package |-> "glibc"],
    [util |-> "ld",       package |-> "binutils"],
    [util |-> "objcopy",  package |-> "binutils"],
    [util |-> "grep",     package |-> "grep"],
    [util |-> "dmesg",    package |-> "util-linux"],
    [util |-> "tail",     package |-> "coreutils"],
    [util |-> "cut",      package |-> "coreutils"],
    [util |-> "tr",       package |-> "coreutils"],
    [util |-> "sed",      package |-> "sed"] >>

\* misc.c:506-513
optional_utils == <<
    [util |-> "chcon",          package |-> "selinux"],
    [util |-> "selinuxenabled", package |-> "selinux"],
    [util |-> "getenforce",     package |-> "selinux"],
    [util |-> "execstack",      package |-> "selinux"],
    [util |-> "pkg-config",     package |-> "pkg-config"],
    [util |-> "X",              package |-> "xserver"] >>

\* The SystemUtils and SystemOptionalUtils enum types number the slots of
\* op->utils; the two tables are kept in sync with them, so the required
\* slots are 0 .. MAX_SYSTEM_UTILS - 1 and the optional slots follow.
MAX_SYSTEM_UTILS == Len(needed_utils)

MAX_SYSTEM_OPTIONAL_UTILS == MAX_SYSTEM_UTILS + Len(optional_utils)

UNSET == "unset"

\* the absolute path find_system_util() returns for a utility it found
PathOf(util) == "/usr/bin/" \o util

UtilIdle ==
    /\ utils = [k \in 0..(MAX_SYSTEM_OPTIONAL_UTILS - 1) |-> UNSET]
    /\ fsu_i = 0
    /\ fsu_pc = "idle"
    /\ fsu_searched = <<>>
    /\ fsu_errors = <<>>
    /\ fsu_ret = NONE

UtilInit ==
    /\ utils = [k \in 0..(MAX_SYSTEM_OPTIONAL_UTILS - 1) |-> UNSET]
    /\ fsu_i = 0
    /\ fsu_pc = "required"
    /\ fsu_searched = <<>>
    /\ fsu_errors = <<>>
    /\ fsu_ret = NONE

\* find_system_util(util): the path of the utility, or NULL when no
\* directory of the search path has it; which one depends on the host.
FindSystemUtil(util) == {PathOf(util), NULL}

\* Faulty variant: a missing required utility is reported and the loop goes on.
FsuRequiredMissing_Continue(u) ==
    /\ fsu_errors' = Append(fsu_errors, u)
    /\ fsu_i' = fsu_i + 1
    /\ fsu_pc' = IF fsu_i + 1 < MAX_SYSTEM_UTILS THEN "required" ELSE "optional"
    /\ UNCHANGED fsu_ret

\* misc.c:523-531  ui_error naming the utility and its package; return FALSE
FsuRequiredMissing(u) ==
    /\ fsu_errors' = Append(fsu_errors, u)
    /\ fsu_ret' = F
    /\ fsu_pc' = "returned"
    /\ UNCHANGED fsu_i

\* misc.c:521-535  one iteration of the loop over the required utilities
FsuRequired ==
    /\ fsu_pc = "required"
    /\ fsu_i < MAX_SYSTEM_UTILS
    /\ LET u == needed_utils[fsu_i + 1] IN
       /\ fsu_searched' = Append(fsu_searched, u.util)
       /\ \E found \in FindSystemUtil(u.util) :
             /\ utils' = [utils EXCEPT ![fsu_i] = found]
             /\ IF found = NULL
                THEN FsuRequiredMissing(u)
                ELSE /\ fsu_i' = fsu_i + 1
                     /\ fsu_pc' = IF fsu_i + 1 < MAX_SYSTEM_UTILS
                                  THEN "required" ELSE "optional"
                     /\ UNCHANGED <<fsu_errors, fsu_ret>>
    /\ UNCHANGED notUtil

\* misc.c:537-546  one iteration of the loop over the optional utilities
FsuOptional ==
    /\ fsu_pc = "optional"
    /\ fsu_i < MAX_SYSTEM_OPTIONAL_UTILS
    /\ LET u == optional_utils[fsu_i - MAX_SYSTEM_UTILS + 1] IN
       /\ fsu_searched' = Append(fsu_searched, u.util)
       /\ \E found \in FindSystemUtil(u.util) :
             utils' = [utils EXCEPT ![fsu_i] = found]
    /\ fsu_i' = fsu_i + 1
    /\ UNCHANGED <<fsu_pc, fsu_errors, fsu_ret>>
    /\ UNCHANGED notUtil

\* misc.c:548  return TRUE
FsuReturn ==
    /\ fsu_pc = "optional"
    /\ fsu_i >= MAX_SYSTEM_OPTIONAL_UTILS
    /\ fsu_ret' = T
    /\ fsu_pc' = "returned"
    /\ UNCHANGED <<utils, fsu_i, fsu_searched, fsu_errors>>
    /\ UNCHANGED notUtil

UtilNext ==
    \/ FsuRequired
    \/ FsuOptional
    \/ FsuReturn

\* ---- dkms (misc.c) -------------------------------------------------------
\* A C string is the sequence of its pieces; the empty string is <<>> and
\* the null pointer is a value of its own.
NullStr == <<NULL>>

Str(piece) == <<piece>>

\* misc.c:2605-2609
DKMS_STATUS == Str(" status")

DKMS_ADD == Str(" add")

DKMS_BUILD == Str(" build")

DKMS_INSTALL == Str(" install")

DKMS_REMOVE == Str(" remove")

\* nvstrcat(str, ..., NULL) concatenates its arguments up to the first null
\* pointer: "Optional arguments may be NULL, in which case nvstrcat() will
\* end early" (misc.c:2646-2647).
RECURSIVE NvStrcat(_)
NvStrcat(args) ==
    IF args = <<>> \/ Head(args) = NullStr
    THEN <<>>
    ELSE Head(args) \o NvStrcat(Tail(args))

\* misc.c:2648-2657  the command line run_dkms builds once dkms was found
DkmsCmdline(cmd, verb, version, kernel) ==
    LET modopt == Str(" -m nvidia")
        veropt == IF version # NullStr
                  THEN NvStrcat(<<Str(" -v "), version>>) ELSE NullStr
        kernopt_all == IF verb = DKMS_REMOVE THEN Str(" --all") ELSE <<>>
        kernopt == IF verb = DKMS_REMOVE THEN NullStr
                   ELSE IF kernel # NullStr
                        THEN NvStrcat(<<Str(" -k "), kernel>>) ELSE NullStr
    IN NvStrcat(<<cmd, verb, modopt, veropt, kernopt_all, kernopt>>)

\* What run_command(op, cmdline, &output, FALSE, 0, TRUE) can hand back: the
\* child's exit status with its captured output, or errno and no buffer
\* when popen failed.
RunCommandResults ==
    {[ret |-> r, output |-> o] : r \in {0, 1}, o \in {<<>>, Str("text")}}
        \cup {[ret |-> ERRNO, output |-> NullStr]}

\* misc.c:2629-2677  the possible outcomes of run_dkms(op, verb, version,
\* kernel, out): whether dkms was found, the command line executed (a null
\* pointer if none was), the errors reported, *out, and the value returned
RunDkms(verb, version, kernel) ==
    {[found |-> FALSE, cmdline |-> NullStr,
      errors |-> IF verb # DKMS_STATUS THEN <<"Failed to find dkms">> ELSE <<>>,
      out |-> NullStr, ret |-> F]}
    \cup
    {[found |-> TRUE,
      cmdline |-> DkmsCmdline(Str("/usr/sbin/dkms"), verb, version, kernel),
      errors |-> IF rc.ret # 0 THEN <<"Failed to run">> ELSE <<>>,
      out |-> rc.output,
      ret |-> IF rc.ret = 0 THEN T ELSE F] : rc \in RunCommandResults}

Versions == {NullStr, Str("340.24")}

Kernels == {NullStr, Str("3.13.0")}

DkmsIdle ==
    /\ dk_op = NONE
    /\ dk_version = NullStr
    /\ dk_kernel = NullStr
    /\ dk_pc = "idle"
    /\ dk_calls = <<>>
    /\ dk_errors = <<>>
    /\ dk_ui = <<>>
    /\ dk_ret = NONE

\* one of dkms_module_installed(op, version), dkms_install_module(op,
\* version, kernel) and dkms_remove_module(op, version) is entered
DkmsInit ==
    /\ dk_op \in {"module_installed", "install_module", "remove_module"}
    /\ dk_version \in Versions
    /\ dk_kernel \in IF dk_op = "install_module" THEN Kernels ELSE {NullStr}
    /\ dk_pc = IF dk_op = "install_module" THEN "add" ELSE "call"
    /\ dk_calls = <<>>
    /\ dk_errors = <<>>
    /\ dk_ui = <<>>
    /\ dk_ret = NONE

\* misc.c:2687-2698  dkms_module_installed
DkmsModuleInstalled ==
    /\ dk_op = "module_installed"
    /\ dk_pc = "call"
    /\ \E r \in RunDkms(DKMS_STATUS, dk_version, NullStr) :
          LET bRet == r.out # NullStr /\ r.out # <<>> IN
          /\ dk_calls' = Append(dk_calls, r)
          /\ dk_errors' = dk_errors \o r.errors
          /\ dk_ret' = IF r.ret = T /\ bRet THEN T ELSE F
    /\ dk_pc' = "returned"
    /\ UNCHANGED <<dk_op, dk_version, dk_kernel, dk_ui>>
    /\ UNCHANGED notDkms

\* Faulty variant: a failed step is reported but the next verb is still run.
DkmsStep_KeepGoing(verb, before, next, after) ==
    /\ \E r \in RunDkms(verb, dk_version, dk_kernel) :
          /\ dk_calls' = Append(dk_calls, r)
          /\ IF r.ret = T /\ next = "returned"
             THEN /\ dk_errors' = dk_errors \o r.errors
                  /\ dk_ui' = dk_ui \o <<before, after>>
                  /\ dk_ret' = T
             ELSE /\ dk_errors' = dk_errors \o r.errors
                  /\ dk_ui' = dk_ui \o <<before>>
                  /\ UNCHANGED dk_ret
    /\ dk_pc' = next
    /\ UNCHANGED <<dk_op, dk_version, dk_kernel>>

\* misc.c:2705-2722  one step of dkms_install_module: tell the ui, run the
\* verb; on failure `goto failed` (end the status, report, return FALSE),
\* otherwise go on to the next step or end the status and return TRUE
DkmsStep(verb, before, next, after) ==
    /\ \E r \in RunDkms(verb, dk_version, dk_kernel) :
          /\ dk_calls' = Append(dk_calls, r)
          /\ IF r.ret = T
             THEN /\ dk_errors' = dk_errors \o r.errors
                  /\ dk_ui' = dk_ui \o (IF next = "returned"
                                        THEN <<before, after>> ELSE <<before>>)
                  /\ dk_pc' = next
                  /\ dk_ret' = IF next = "returned" THEN T ELSE dk_ret
             ELSE /\ dk_errors' = dk_errors \o r.errors
                                    \o <<"Failed to install the kernel module through DKMS">>
                  /\ dk_ui' = dk_ui \o <<before, "end: error.">>
                  /\ dk_pc' = "returned"
                  /\ dk_ret' = F
    /\ UNCHANGED <<dk_op, dk_version, dk_kernel>>

\* misc.c:2705-2706
DkmsInstallAdd ==
    /\ dk_op = "install_module"
    /\ dk_pc = "add"
    /\ DkmsStep(DKMS_ADD, "begin: Adding to DKMS", "build", "")
    /\ UNCHANGED notDkms

\* misc.c:2708-2709
DkmsInstallBuild ==
    /\ dk_op = "install_module"
    /\ dk_pc = "build"
    /\ DkmsStep(DKMS_BUILD, "update .05: Building module", "install", "")
    /\ UNCHANGED notDkms

\* misc.c:2711-2715
DkmsInstallInstall ==
    /\ dk_op = "install_module"
    /\ dk_pc = "install"
    /\ DkmsStep(DKMS_INSTALL, "update .9: Installing module",
                "returned", "end: done.")
    /\ UNCHANGED notDkms

\* misc.c:2728-2731  dkms_remove_module
DkmsRemoveModule ==
    /\ dk_op = "remove_module"
    /\ dk_pc = "call"
    /\ \E r \in RunDkms(DKMS_REMOVE, dk_version, NullStr) :
          /\ dk_calls' = Append(dk_calls, r)
          /\ dk_errors' = dk_errors \o r.errors
          /\ dk_ret' = r.ret
    /\ dk_pc' = "returned"
    /\ UNCHANGED <<dk_op, dk_version, dk_kernel, dk_ui>>
    /\ UNCHANGED notDkms

DkmsNext ==
    \/ DkmsModuleInstalled
    \/ DkmsInstallAdd
    \/ DkmsInstallBuild
    \/ DkmsInstallInstall
    \/ DkmsRemoveModule

\* ---- check_for_nouveau (misc.c) ------------------------------------------
\* misc.c:2417-2418
modprobe_directories == <<"/etc/modprobe.d", "/usr/lib/modprobe.d">>

\* misc.c:2426  3728279991U, an unsigned 32-bit value, kept as its high
\* and low 16-bit halves (56889 * 65536 + 2487)
DISABLE_NOUVEAU_FILE_CKSUM == <<56889, 2487>>

\* misc.c:2459-2461  the three lines write_blacklist_file() writes
BlacklistTemplate ==
    <<"# generated by nvidia-installer", "blacklist nouveau",
      "options nouveau modeset=0">>

OtherContents == <<"blacklist nouveau">>

\* compute_crc(op, filename): the checksum of the file's contents; "this
\* checksum is the result of compute_crc() for the file contents written in
\* blacklist_nouveau()" (misc.c:2421-2424), other contents give another.
ComputeCrc(contents) ==
    IF contents = BlacklistTemplate THEN DISABLE_NOUVEAU_FILE_CKSUM ELSE <<0, 1>>

\* What a modprobe directory can be: missing, or present with the file
\* <dir>/nvidia-installer-disable-nouveau.conf missing or present, readable
\* or not, with the generated or with other contents.
NoDir == [dir |-> FALSE, file |-> FALSE, readable |-> FALSE, contents |-> <<>>]

EmptyDir == [dir |-> TRUE, file |-> FALSE, readable |-> FALSE, contents |-> <<>>]

ConfFile(r, c) == [dir |-> TRUE, file |-> TRUE, readable |-> r, contents |-> c]

DirStates ==
    {NoDir, EmptyDir}
        \cup {ConfFile(r, c) : r \in BOOLEAN, c \in {BlacklistTemplate, OtherContents}}

DirNames == {modprobe_directories[k] : k \in 1..Len(modprobe_directories)}

\* the drivers the /sys/bus/pci/devices/*/driver links can point to
Drivers == {"nouveau", "i915"}

NouveauIdle ==
    /\ nv_op = [no_nouveau_check |-> FALSE, disable_nouveau |-> FALSE]
    /\ sysfs = [opendir |-> FALSE, drivers |-> {}]
    /\ modprobe_d = [d \in DirNames |-> NoDir]
    /\ modprobe_d0 = modprobe_d
    /\ nv_pc = "idle"
    /\ nv_prompts = <<>>
    /\ nv_written = <<>>
    /\ nv_ui = <<>>
    /\ nv_ret = NONE

NouveauInit ==
    /\ nv_op \in [no_nouveau_check : BOOLEAN, disable_nouveau : BOOLEAN]
    /\ sysfs \in [opendir : BOOLEAN, drivers : SUBSET Drivers]
    /\ modprobe_d \in [DirNames -> DirStates]
    /\ modprobe_d0 = modprobe_d
    /\ nv_pc = "check"
    /\ nv_prompts = <<>>
    /\ nv_written = <<>>
    /\ nv_ui = <<>>
    /\ nv_ret = NONE

\* misc.c:2362-2413  nouveau_is_present(): some device's driver link ends in
\* "nouveau"; FALSE when the sysfs directory cannot be opened
NouveauIsPresent == sysfs.opendir /\ "nouveau" \in sysfs.drivers

\* misc.c:2523-2524  access(filename, R_OK) == 0 and the checksum matches
BlacklistFileMatches(d) ==
    /\ modprobe_d[d].file
    /\ modprobe_d[d].readable
    /\ ComputeCrc(modprobe_d[d].contents) = DISABLE_NOUVEAU_FILE_CKSUM

\* Faulty variant: only the first modprobe directory is looked at.
NouveauBlacklistFileIsPresent_FirstOnly ==
    IF BlacklistFileMatches(modprobe_directories[1])
    THEN <<modprobe_directories[1]>> ELSE <<>>

\* misc.c:2515-2531  nouveau_blacklist_file_is_present(): the list of the
\* directories holding a matching file, each one found put in front of the
\* earlier ones (the empty list stands for NULL)
RECURSIVE BlacklistFilesFrom(_)
BlacklistFilesFrom(i) ==
    IF i > Len(modprobe_directories) THEN <<>>
    ELSE LET rest == BlacklistFilesFrom(i + 1)
             d == modprobe_directories[i]
         IN IF BlacklistFileMatches(d) THEN rest \o <<d>> ELSE rest

NouveauBlacklistFileIsPresent == BlacklistFilesFrom(1)

\* misc.c:2554-2561  the opt-out, the detection, the error about Nouveau
NvCheck ==
    /\ nv_pc = "check"
    /\ IF nv_op.no_nouveau_check \/ ~NouveauIsPresent
       THEN /\ nv_ret' = T
            /\ nv_pc' = "returned"
            /\ UNCHANGED nv_ui
       ELSE /\ nv_ui' = Append(nv_ui, "error: Nouveau in use")
            /\ nv_pc' = "present"
            /\ UNCHANGED nv_ret
    /\ UNCHANGED <<nv_op, sysfs, modprobe_d, modprobe_d0, nv_prompts, nv_written>>
    /\ UNCHANGED notNouveau

\* misc.c:2563-2575  blacklist files already present: warn, return FALSE
NvAlreadyBlacklisted ==
    /\ nv_pc = "present"
    /\ IF NouveauBlacklistFileIsPresent # <<>>
       THEN /\ nv_ui' = Append(nv_ui, "warn: already present")
            /\ nv_ret' = F
            /\ nv_pc' = "returned"
       ELSE /\ nv_pc' = "prompt"
            /\ UNCHANGED <<nv_ui, nv_ret>>
    /\ UNCHANGED <<nv_op, sysfs, modprobe_d, modprobe_d0, nv_prompts, nv_written>>
    /\ UNCHANGED notNouveau

\* misc.c:2438-2471  write_blacklist_file(directory) under outcome o: the
\* directory afterwards
WriteBlacklistFile(d, o) ==
    IF ~modprobe_d[d].dir \/ o = "fopen fails" THEN modprobe_d[d]
    ELSE IF o = "fclose fails" THEN ConfFile(TRUE, OtherContents)
    ELSE ConfFile(TRUE, BlacklistTemplate)

\* write_blacklist_file returned the file name rather than NULL
Written(d, o) == modprobe_d[d].dir /\ o = "ok"

\* misc.c:2491-2505  blacklist_nouveau(): the list of the files written
RECURSIVE BlacklistNouveauFrom(_, _)
BlacklistNouveauFrom(i, o) ==
    IF i > Len(modprobe_directories) THEN <<>>
    ELSE LET rest == BlacklistNouveauFrom(i + 1, o)
             d == modprobe_directories[i]
         IN IF Written(d, o[d]) THEN rest \o <<d>> ELSE rest

\* Faulty variant: after writing the files the check reports success.
NvReturnAfterPrompt_TrueIfWritten ==
    IF nv_written # <<>> THEN T ELSE F

\* misc.c:2602  return FALSE
NvReturnAfterPrompt == F

\* misc.c:2577-2602  ask; on "yes" write the files and tell which, or warn
\* that none could be written; return FALSE
NvPromptAndBlacklist ==
    /\ nv_pc = "prompt"
    /\ \E answer \in BOOLEAN :
          /\ nv_prompts' = Append(nv_prompts,
                 [default |-> nv_op.disable_nouveau, answer |-> answer])
          /\ IF answer
             THEN \E o \in [DirNames -> {"ok", "fopen fails", "fclose fails"}] :
                     /\ modprobe_d' = [d \in DirNames |-> WriteBlacklistFile(d, o[d])]
                     /\ nv_written' = BlacklistNouveauFrom(1, o)
                     /\ nv_ui' = Append(nv_ui,
                            IF BlacklistNouveauFrom(1, o) # <<>>
                            THEN "message: files written"
                            ELSE "warn: unable to alter configuration")
             ELSE UNCHANGED <<modprobe_d, nv_written, nv_ui>>
    /\ nv_pc' = "return"
    /\ UNCHANGED <<nv_op, sysfs, modprobe_d0, nv_ret>>
    /\ UNCHANGED notNouveau

NvReturn ==
    /\ nv_pc = "return"
    /\ nv_ret' = NvReturnAfterPrompt
    /\ nv_pc' = "returned"
    /\ UNCHANGED <<nv_op, sysfs, modprobe_d, modprobe_d0, nv_prompts, nv_written, nv_ui>>
    /\ UNCHANGED notNouveau

NouveauNext ==
    \/ NvCheck
    \/ NvAlreadyBlacklisted
    \/ NvPromptAndBlacklist
    \/ NvReturn

\* ---- select_tls_class (files.c), tls_test (misc.c) -----------------------
\* Flag words are sets of bit names: `a & b` is \cap, `a | b` is \cup.
TLS_LIB_TYPE_FORCED == "TLS_LIB_TYPE_FORCED"

TLS_LIB_NEW_TLS == "TLS_LIB_NEW_TLS"

TLS_LIB_CLASSIC_TLS == "TLS_LIB_CLASSIC_TLS"

FORCE_CLASSIC_TLS == {TLS_LIB_CLASSIC_TLS, TLS_LIB_TYPE_FORCED}

FORCE_NEW_TLS == {TLS_LIB_NEW_TLS, TLS_LIB_TYPE_FORCED}

FILE_CLASS_NEW_TLS == "FILE_CLASS_NEW_TLS"

FILE_CLASS_CLASSIC_TLS == "FILE_CLASS_CLASSIC_TLS"

FILE_CLASS_NATIVE == "FILE_CLASS_NATIVE"

FILE_CLASS_COMPAT32 == "FILE_CLASS_COMPAT32"

FILE_TYPE_MASK ==
    {"FILE_TYPE_KERNEL_MODULE", "FILE_TYPE_KERNEL_MODULE_CMD",
     "FILE_TYPE_KERNEL_MODULE_SRC", "FILE_TYPE_OPENGL_LIB",
     "FILE_TYPE_OPENGL_SYMLINK", "FILE_TYPE_XLIB_SHARED_LIB",
     "FILE_TYPE_XLIB_STATIC_LIB", "FILE_TYPE_XLIB_SYMLINK",
     "FILE_TYPE_XMODULE_SHARED_LIB", "FILE_TYPE_XMODULE_STATIC_LIB",
     "FILE_TYPE_XMODULE_SYMLINK", "FILE_TYPE_TLS_LIB",
     "FILE_TYPE_TLS_SYMLINK", "FILE_TYPE_LIBGL_LA",
     "FILE_TYPE_OPENGL_HEADER", "FILE_TYPE_DOCUMENTATION",
     "FILE_TYPE_INSTALLER_BINARY", "FILE_TYPE_UTILITY_BINARY",
     "FILE_TYPE_DOT_DESKTOP"}

\* what the environment does to one run of the capability test: the two
\* write_temp_file calls, set_security_context, the test program's verdict
TlsOutcomes ==
    {o \in [tmpfile : BOOLEAN, dso_tmpfile : BOOLEAN,
            context : BOOLEAN, passes : BOOLEAN] :
        /\ o.dso_tmpfile => o.tmpfile
        /\ o.context => o.dso_tmpfile
        /\ o.passes => o.context}

TlsResult(ret, written, ran, warned) ==
    [ret |-> ret, written |-> written, ran |-> ran, warned |-> warned]

\* tls_test_internal(): the verdict, the temporary files written, the test
\* programs executed and the warnings issued
TlsTestInternal(which_tls, have_test, o) ==
    IF which_tls = FORCE_NEW_TLS THEN TlsResult(TRUE, 0, 0, 0)
    ELSE IF which_tls = FORCE_CLASSIC_TLS THEN TlsResult(FALSE, 0, 0, 0)
    ELSE IF ~have_test THEN TlsResult(FALSE, 0, 0, 1)
    ELSE IF ~o.tmpfile THEN TlsResult(FALSE, 0, 0, 1)
    ELSE IF ~o.dso_tmpfile THEN TlsResult(FALSE, 1, 0, 1)
    ELSE IF ~o.context THEN TlsResult(TRUE, 2, 0, 1)
    ELSE TlsResult(o.passes, 2, 1, 0)

\* tls_test(): without NV_TLS_TEST the test is assumed to pass; the compat32
\* variant exists on NV_X86_64 builds only
TlsTest(build, op, compat_32_libs, o) ==
    IF ~build.NV_TLS_TEST THEN TlsResult(TRUE, 0, 0, 0)
    ELSE IF compat_32_libs
    THEN IF build.NV_X86_64
         THEN TlsTestInternal(op.which_tls_compat32, build.have_test_32, o)
         ELSE TlsResult(FALSE, 0, 0, 0)
    ELSE TlsTestInternal(op.which_tls, build.have_test, o)

\* Faulty variant: the new-TLS entries of both architecture classes go.
ClearNewTls_AnyArch(entries, arch) ==
    [i \in 1..Len(entries) |->
        IF entries[i].flags \cap {FILE_CLASS_NEW_TLS} # {}
        THEN [entries[i] EXCEPT !.flags = @ \ FILE_TYPE_MASK, !.dst = NULL]
        ELSE entries[i]]

\* the loop of select_tls_class() that invalidates the new-TLS entries of
\* one architecture class
ClearNewTls(entries, arch) ==
    [i \in 1..Len(entries) |->
        IF /\ entries[i].flags \cap {FILE_CLASS_NEW_TLS} # {}
           /\ entries[i].flags \cap {arch} # {}
        THEN [entries[i] EXCEPT !.flags = @ \ FILE_TYPE_MASK, !.dst = NULL]
        ELSE entries[i]]

\* Faulty variant: the pinned choice drops the caller's override bit.
PinTls_DropForced(which, choice) == {choice}

\* op->which_tls = (op->which_tls & TLS_LIB_TYPE_FORCED) | choice
PinTls(which, choice) == (which \cap {TLS_LIB_TYPE_FORCED}) \cup {choice}

\* the native half of select_tls_class()
SelectNative(op, entries, r) ==
    IF ~r.ret
    THEN [op |-> [op EXCEPT !.which_tls = PinTls(@, TLS_LIB_CLASSIC_TLS)],
          entries |-> ClearNewTls(entries, FILE_CLASS_NATIVE)]
    ELSE [op |-> [op EXCEPT !.which_tls = PinTls(@, TLS_LIB_NEW_TLS)],
          entries |-> entries]

\* the compat32 half of select_tls_class(), compiled on NV_X86_64 only
SelectCompat32(op, entries, r) ==
    IF ~r.ret
    THEN [op |-> [op EXCEPT
                    !.which_tls_compat32 = PinTls(@, TLS_LIB_CLASSIC_TLS)],
          entries |-> ClearNewTls(entries, FILE_CLASS_COMPAT32)]
    ELSE [op |-> [op EXCEPT
                    !.which_tls_compat32 = PinTls(@, TLS_LIB_NEW_TLS)],
          entries |-> entries]

\* the builds: the test arrays exist in builds that compile the test only
TlsBuilds ==
    {b \in [NV_X86_64 : BOOLEAN, NV_TLS_TEST : BOOLEAN,
            have_test : BOOLEAN, have_test_32 : BOOLEAN] :
        /\ b.have_test => b.NV_TLS_TEST
        /\ b.have_test_32 => (b.NV_TLS_TEST /\ b.NV_X86_64)}

\* what the command line leaves in which_tls: nothing, or one override
TlsChoices == {{}, FORCE_NEW_TLS, FORCE_CLASSIC_TLS}

\* the flag words of a manifest's libraries: a role, a TLS class, an
\* architecture class
TlsFlags ==
    {tc \cup {a} :
        tc \in {{"FILE_TYPE_TLS_LIB", FILE_CLASS_NEW_TLS},
                {"FILE_TYPE_OPENGL_LIB", FILE_CLASS_NEW_TLS},
                {"FILE_TYPE_OPENGL_LIB", FILE_CLASS_CLASSIC_TLS}},
        a \in {FILE_CLASS_NATIVE, FILE_CLASS_COMPAT32}}

TlsIdle ==
    /\ tls_build = [NV_X86_64 |-> FALSE, NV_TLS_TEST |-> FALSE,
                    have_test |-> FALSE, have_test_32 |-> FALSE]
    /\ tls_op = [which_tls |-> {}, which_tls_compat32 |-> {}]
    /\ tls_op0 = tls_op
    /\ tls_entries = <<>>
    /\ tls_calls = 0
    /\ tls_after1 = <<>>
    /\ tls_written = 0
    /\ tls_ran = 0
    /\ tls_ui = 0
    /\ tls_before = <<>>
    /\ tls_verdict = [native |-> NONE, compat32 |-> NONE]

TlsInit ==
    /\ tls_build \in TlsBuilds
    /\ \E w \in TlsChoices, w32 \in TlsChoices :
        /\ ~tls_build.NV_X86_64 => w32 = {}
        /\ tls_op = [which_tls |-> w, which_tls_compat32 |-> w32]
    /\ tls_op0 = tls_op
    /\ \E d \in {NULL, "dst"} :
        \E f \in [1..MaxEntries -> TlsFlags] :
            tls_entries = [i \in 1..MaxEntries |-> [flags |-> f[i], dst |-> d]]
    /\ tls_calls = 0
    /\ tls_after1 = <<>>
    /\ tls_written = 0
    /\ tls_ran = 0
    /\ tls_ui = 0
    /\ tls_before = <<>>
    /\ tls_verdict = [native |-> NONE, compat32 |-> NONE]

\* one call of select_tls_class(op, p)
SelectTlsClass ==
    /\ tls_calls < MaxTlsCalls
    /\ \E o \in TlsOutcomes, o32 \in TlsOutcomes :
        LET r == TlsTest(tls_build, tls_op, FALSE, o)
            n == SelectNative(tls_op, tls_entries, r)
            r32 == TlsTest(tls_build, n.op, TRUE, o32)
            c == IF tls_build.NV_X86_64
                 THEN SelectCompat32(n.op, n.entries, r32)
                 ELSE n
            t32 == IF tls_build.NV_X86_64 THEN r32 ELSE TlsResult(TRUE, 0, 0, 0)
        IN  /\ tls_op' = c.op
            /\ tls_entries' = c.entries
            /\ tls_written' = tls_written + r.written + t32.written
            /\ tls_ran' = tls_ran + r.ran + t32.ran
            /\ tls_ui' = tls_ui + r.warned + t32.warned
            /\ tls_after1' = IF tls_calls = 0 THEN <<c.op, c.entries>>
                             ELSE tls_after1
            /\ tls_verdict' =
                    [native |-> IF r.ret THEN T ELSE F,
                     compat32 |-> IF ~tls_build.NV_X86_64 THEN NONE
                                  ELSE IF r32.ret THEN T ELSE F]
    /\ tls_before' = tls_entries
    /\ tls_calls' = tls_calls + 1
    /\ UNCHANGED <<tls_build, tls_op0>>
    /\ UNCHANGED notTls

TlsNext == SelectTlsClass

\* ---- set_destinations (files.c) ------------------------------------------
\* Strings are sequences of characters (or of longer pieces where only
\* concatenation matters); NullStr is the NULL pointer, <<>> the empty string.
\* strstr(s, t): the position of the first occurrence of t in s, 0 if none
StrStr(s, t) ==
    LET hits == {k \in 1..(Len(s) - Len(t) + 1) :
                    SubSeq(s, k, k + Len(t) - 1) = t}
    IN IF hits = {} THEN 0 ELSE CHOOSE k \in hits : \A h \in hits : k <= h

LIB == <<"l", "i", "b">>

LIB64 == <<"l", "i", "b", "6", "4">>

\* the roles whose entries carry a relative path
FILE_TYPE_HAVE_PATH ==
    {"FILE_TYPE_OPENGL_LIB", "FILE_TYPE_OPENGL_SYMLINK",
     "FILE_TYPE_XLIB_SHARED_LIB", "FILE_TYPE_XLIB_STATIC_LIB",
     "FILE_TYPE_XLIB_SYMLINK", "FILE_TYPE_XMODULE_SHARED_LIB",
     "FILE_TYPE_XMODULE_STATIC_LIB", "FILE_TYPE_XMODULE_SYMLINK",
     "FILE_TYPE_TLS_LIB", "FILE_TYPE_TLS_SYMLINK", "FILE_TYPE_LIBGL_LA",
     "FILE_TYPE_DOCUMENTATION"}

Distributions == {"DEBIAN", "UBUNTU", "GENTOO", "OTHER"}

OPENGL_HEADER_DST_PATH == Str("include/GL")

INSTALLER_BINARY_DST_PATH == Str("bin")

UTILITY_BINARY_DST_PATH == Str("bin")

DOT_DESKTOP_DST_PATH == Str("share/applications")

\* files.c:508-509  the remainder after "lib64" is moved over the "64"
RewriteLib64(path, s) ==
    SubSeq(path, 1, s + 2) \o SubSeq(path, s + 5, Len(path))

\* files.c:530-538  "lib" at the end gets "32" appended; otherwise the
\* character after "lib" is cut and "32/" spliced in before the remainder
RewriteLib32(path, s) ==
    IF s + 3 > Len(path)
    THEN NvStrcat(<<path, Str("3"), Str("2")>>)
    ELSE NvStrcat(<<SubSeq(path, 1, s + 2), Str("3"), Str("2"), Str("/"),
                    SubSeq(path, s + 4, Len(path))>>)

\* Faulty variant: the lib32 rewrite is applied to native entries as well.
RewritePath_AnyClass(x86_64, distro, e) ==
    IF x86_64 /\ e.flags \cap FILE_TYPE_HAVE_PATH # {}
              /\ distro \in {"UBUNTU", "GENTOO"} /\ StrStr(e.path, LIB) # 0
    THEN RewriteLib32(e.path, StrStr(e.path, LIB))
    ELSE e.path

\* files.c:492-543  the distribution-specific rewrites of the entry's path
RewritePath(x86_64, distro, e) ==
    IF x86_64 /\ e.flags \cap FILE_TYPE_HAVE_PATH # {}
    THEN IF distro \in {"DEBIAN", "UBUNTU"} /\ StrStr(e.path, LIB64) # 0
         THEN RewriteLib64(e.path, StrStr(e.path, LIB64))
         ELSE IF /\ distro \in {"UBUNTU", "GENTOO"}
                 /\ e.flags \cap {FILE_CLASS_COMPAT32} # {}
                 /\ StrStr(e.path, LIB) # 0
              THEN RewriteLib32(e.path, StrStr(e.path, LIB))
              ELSE e.path
    ELSE e.path

\* strtok(xdg_data_dir, ":"): the first non-empty field, NULL if there is
\* none, and the string as strtok leaves it (cut after that field)
Strtok(s) ==
    LET starts == {k \in 1..Len(s) : s[k] # ":"}
    IN IF starts = {} THEN [token |-> NullStr, left |-> s]
       ELSE LET b == CHOOSE k \in starts : \A h \in starts : k <= h
                ends == {k \in b..Len(s) : k = Len(s) \/ s[k + 1] = ":"}
                e == CHOOSE k \in ends : \A h \in ends : k <= h
            IN [token |-> SubSeq(s, b, e), left |-> SubSeq(s, 1, e)]

\* the role tag of a flag word: flags & FILE_TYPE_MASK
FileType(flags) == flags \cap FILE_TYPE_MASK

\* Faulty variant: the X libraries are installed under the OpenGL prefix.
DestPrefix_XlibUnderOpenGL(op, type, token) ==
    IF type \cap {"FILE_TYPE_XMODULE_SHARED_LIB", "FILE_TYPE_XMODULE_STATIC_LIB",
                  "FILE_TYPE_XMODULE_SYMLINK"} # {}
    THEN op.x_module_path
    ELSE IF type = {"FILE_TYPE_INSTALLER_BINARY"} THEN op.installer_prefix
    ELSE IF type = {"FILE_TYPE_UTILITY_BINARY"} THEN op.utility_prefix
    ELSE IF type = {"FILE_TYPE_DOT_DESKTOP"} /\ token # NullStr THEN token
    ELSE op.opengl_prefix

\* files.c:545-629  the prefix the switch selects for a role that is installed
DestPrefix(op, type, token) ==
    IF type \cap {"FILE_TYPE_XLIB_SHARED_LIB", "FILE_TYPE_XLIB_STATIC_LIB",
                  "FILE_TYPE_XLIB_SYMLINK"} # {}
    THEN op.xfree86_prefix
    ELSE IF type \cap {"FILE_TYPE_XMODULE_SHARED_LIB",
                       "FILE_TYPE_XMODULE_STATIC_LIB",
                       "FILE_TYPE_XMODULE_SYMLINK"} # {}
    THEN op.x_module_path
    ELSE IF type = {"FILE_TYPE_INSTALLER_BINARY"} THEN op.installer_prefix
    ELSE IF type = {"FILE_TYPE_UTILITY_BINARY"} THEN op.utility_prefix
    ELSE IF type = {"FILE_TYPE_DOT_DESKTOP"} /\ token # NullStr THEN token
    ELSE op.opengl_prefix

\* files.c:545-629  the relative path the switch selects
DestPath(path, type, token) ==
    IF type = {"FILE_TYPE_OPENGL_HEADER"} THEN OPENGL_HEADER_DST_PATH
    ELSE IF type = {"FILE_TYPE_INSTALLER_BINARY"} THEN INSTALLER_BINARY_DST_PATH
    ELSE IF type = {"FILE_TYPE_UTILITY_BINARY"} THEN UTILITY_BINARY_DST_PATH
    ELSE IF type = {"FILE_TYPE_DOT_DESKTOP"}
    THEN IF token # NullStr THEN Str("applications") ELSE DOT_DESKTOP_DST_PATH
    ELSE path

\* the roles the switch gives a destination
DestRoles ==
    {"FILE_TYPE_OPENGL_LIB", "FILE_TYPE_OPENGL_SYMLINK",
     "FILE_TYPE_XLIB_SHARED_LIB", "FILE_TYPE_XLIB_STATIC_LIB",
     "FILE_TYPE_XLIB_SYMLINK", "FILE_TYPE_XMODULE_SHARED_LIB",
     "FILE_TYPE_XMODULE_STATIC_LIB", "FILE_TYPE_XMODULE_SYMLINK",
     "FILE_TYPE_TLS_LIB", "FILE_TYPE_TLS_SYMLINK", "FILE_TYPE_LIBGL_LA",
     "FILE_TYPE_OPENGL_HEADER", "FILE_TYPE_DOCUMENTATION",
     "FILE_TYPE_INSTALLER_BINARY", "FILE_TYPE_UTILITY_BINARY",
     "FILE_TYPE_DOT_DESKTOP"}

\* one iteration of the loop of set_destinations(): the entry and the
\* environment string as the iteration leaves them
SetDestination(x86_64, op, xdg, e) ==
    LET path == RewritePath(x86_64, op.distro, e)
        type == FileType(e.flags)
        tok == IF type = {"FILE_TYPE_DOT_DESKTOP"} /\ xdg # NullStr
               THEN Strtok(xdg)
               ELSE [token |-> NullStr, left |-> xdg]
        dst == NvStrcat(<<DestPrefix(op, type, tok.token), Str("/"),
                          DestPath(path, type, tok.token), Str("/"), e.name>>)
    IN [xdg |-> tok.left,
        entry |->
            IF type = {"FILE_TYPE_KERNEL_MODULE"}
            THEN [e EXCEPT !.path = path]
            ELSE IF type \cap DestRoles = {}
            THEN [e EXCEPT !.path = path, !.dst = NullStr]
            ELSE IF /\ x86_64
                    /\ e.flags \cap {FILE_CLASS_COMPAT32} # {}
                    /\ op.compat32_prefix # NullStr
            THEN [e EXCEPT !.path = path,
                           !.dst = NvStrcat(<<op.compat32_prefix, dst>>)]
            ELSE [e EXCEPT !.path = path, !.dst = dst]]

\* the loop of set_destinations() from entry i on
RECURSIVE SetDestinationsFrom(_, _, _, _, _)
SetDestinationsFrom(x86_64, op, xdg, entries, i) ==
    IF i > Len(entries) THEN [xdg |-> xdg, entries |-> entries]
    ELSE LET r == SetDestination(x86_64, op, xdg, entries[i])
         IN SetDestinationsFrom(x86_64, op, r.xdg,
                                [entries EXCEPT ![i] = r.entry], i + 1)

\* the relative paths of a manifest
DestPathsOf ==
    {LIB, <<"l", "i", "b", "/", "t">>, <<"x", "/", "l", "i", "b">>,
     <<"l", "i", "b", "6", "4", "/", "m">>}

\* a parsed manifest entry; the kernel module's entry is appended with its
\* destination by add_kernel_module_to_package()
DestEntry(type, arch, path) ==
    [flags |-> {type, arch}, path |-> path, name |-> Str("n"),
     dst |-> IF type = "FILE_TYPE_KERNEL_MODULE" THEN Str("/k/n") ELSE NullStr]

DestEntries ==
    {DestEntry(t, a, p) :
        t \in {"FILE_TYPE_OPENGL_LIB", "FILE_TYPE_XLIB_SHARED_LIB"},
        a \in {FILE_CLASS_NATIVE, FILE_CLASS_COMPAT32},
        p \in DestPathsOf}
    \cup {DestEntry(t, FILE_CLASS_NATIVE, LIB) :
            t \in {"FILE_TYPE_TLS_LIB", "FILE_TYPE_LIBGL_LA",
                   "FILE_TYPE_XMODULE_SHARED_LIB", "FILE_TYPE_DOCUMENTATION"}}
    \cup {DestEntry(t, FILE_CLASS_NATIVE, NullStr) :
            t \in {"FILE_TYPE_OPENGL_HEADER", "FILE_TYPE_INSTALLER_BINARY",
                   "FILE_TYPE_UTILITY_BINARY", "FILE_TYPE_DOT_DESKTOP",
                   "FILE_TYPE_KERNEL_MODULE", "FILE_TYPE_KERNEL_MODULE_SRC"}}
    \cup {[flags |-> {FILE_CLASS_NATIVE}, path |-> LIB, name |-> Str("n"),
           dst |-> NullStr]}

\* the values of XDG_DATA_DIRS: unset, empty, two fields after a colon
XdgValues == {NullStr, <<>>, <<":", "/", "s", ":", "/", "t">>}

DestOptions(distro, compat32_prefix) ==
    [distro |-> distro, opengl_prefix |-> Str("/o"),
     xfree86_prefix |-> Str("/x"), x_module_path |-> Str("/x/m"),
     installer_prefix |-> Str("/i"), utility_prefix |-> Str("/u"),
     compat32_prefix |-> compat32_prefix]

DestIdle ==
    /\ dest_build = FALSE
    /\ dest_op = DestOptions("OTHER", NullStr)
    /\ dest_xdg = NullStr
    /\ dest_xdg0 = NullStr
    /\ dest_entries = <<>>
    /\ dest_entries0 = <<>>
    /\ dest_calls = 0
    /\ dest_ret = NONE

DestInit ==
    /\ dest_build \in BOOLEAN
    /\ \E d \in Distributions, c \in {NullStr, Str("/c")} :
        /\ ~dest_build => (d = "OTHER" /\ c = NullStr)
        /\ dest_op = DestOptions(d, c)
    /\ dest_xdg \in XdgValues
    /\ dest_xdg0 = dest_xdg
    /\ dest_entries \in [1..MaxEntries -> DestEntries]
    /\ dest_entries0 = dest_entries
    /\ dest_calls = 0
    /\ dest_ret = NONE

\* one call of set_destinations(op, p)
SetDestinations ==
    /\ dest_calls < MaxDestCalls
    /\ LET r == SetDestinationsFrom(dest_build, dest_op, dest_xdg,
                                    dest_entries, 1)
       IN /\ dest_entries' = r.entries
          /\ dest_xdg' = r.xdg
    /\ dest_calls' = dest_calls + 1
    /\ dest_ret' = T
    /\ UNCHANGED <<dest_build, dest_op, dest_xdg0, dest_entries0>>
    /\ UNCHANGED notDest

DestNext == SetDestinations

\* ---- get_prefixes, confirm_path (files.c) --------------------------------
\* remove_trailing_slashes(): NULL is left alone, trailing slashes are cut
RECURSIVE RemoveTrailingSlashes(_)
RemoveTrailingSlashes(s) ==
    IF s = NullStr \/ s = <<>> THEN s
    ELSE IF s[Len(s)] = "/" THEN RemoveTrailingSlashes(SubSeq(s, 1, Len(s) - 1))
    ELSE s

\* what confirm_path() meets: the directory exists; it does not and the
\* user agrees and mkdir_recursive succeeds, or fails; or the user declines
ConfirmOutcomes == {"exists", "created", "mkdir_failed", "declined"}

\* Faulty variant: a declined creation is reported as success.
ConfirmPath_DeclineIsSuccess(c) == c \in {"exists", "created", "declined"}

\* confirm_path(): TRUE when the directory exists or was created
ConfirmPath(c) == c \in {"exists", "created"}

\* the yes/no prompts confirm_path() issues and their answers
ConfirmPrompts(c) ==
    IF c = "exists" THEN <<>>
    ELSE IF c = "declined" THEN <<[by |-> "confirm_path", answer |-> "no"]>>
    ELSE <<[by |-> "confirm_path", answer |-> "yes"]>>

\* what the user types at ui_get_input(): nothing, an empty line, a path
PrefixAnswers == {NullStr, <<>>, <<"/", "n">>, <<"/", "n", "/">>}

PrefixValues == {<<"/", "u">>, <<"/", "u", "/">>}

\* what `pkg-config --variable=moduledir xorg-server` yields: no usable
\* directory, or a directory
ModuleDirs == {NullStr, <<"/", "m">>, <<"/", "m", "/">>}

\* get_x_module_path(): a path given on the command line is kept, else the
\* directory pkg-config names, else one built from the X prefix
GetXModulePath(x86_64, op, dir) ==
    IF op.x_module_path # NullStr THEN op.x_module_path
    ELSE IF dir # NullStr THEN dir
    ELSE NvStrcat(<<op.xfree86_prefix, Str("/"),
                    IF x86_64 /\ op.distro \notin {"DEBIAN", "UBUNTU"}
                    THEN LIB64 ELSE LIB,
                    <<"/", "m", "o", "d", "u", "l", "e", "s">>>>)

\* files.c:751-758  the field after `if (ret && ret[0]) op->field = ret`
PromptedValue(old, expert, answer, c) ==
    IF expert /\ answer # NullStr /\ answer # <<>> THEN answer ELSE old

\* one prefix of get_prefixes(): the expert prompt, confirm_path, then
\* remove_trailing_slashes; a failed confirmation returns FALSE at once
GetPrefix(field, old, next) ==
    \E answer \in PrefixAnswers, c \in ConfirmOutcomes :
        LET asked == pf_op.expert /\ answer # NullStr /\ answer # <<>>
            value == PromptedValue(old, pf_op.expert, answer, c)
        IN IF asked /\ ~ConfirmPath(c)
           THEN /\ pf_op' = [pf_op EXCEPT ![field] = value]
                /\ pf_answers' = pf_answers \o ConfirmPrompts(c)
                /\ pf_failed' = field
                /\ pf_ret' = F
                /\ pf_pc' = "returned"
                /\ UNCHANGED pf_confirmed
           ELSE /\ pf_op' = [pf_op EXCEPT
                                ![field] = RemoveTrailingSlashes(value)]
                /\ pf_answers' = IF asked THEN pf_answers \o ConfirmPrompts(c)
                                 ELSE pf_answers
                /\ pf_confirmed' = IF asked THEN pf_confirmed \cup {field}
                                   ELSE pf_confirmed
                /\ pf_ret' = IF next = "returned" THEN T ELSE pf_ret
                /\ pf_pc' = next
                /\ UNCHANGED pf_failed

PfxIdle ==
    /\ pf_build = FALSE
    /\ pf_op = [expert |-> FALSE, distro |-> "OTHER",
                xfree86_prefix |-> NullStr, x_module_path |-> NullStr,
                opengl_prefix |-> NullStr, compat32_prefix |-> NullStr,
                installer_prefix |-> NullStr, utility_prefix |-> NullStr]
    /\ pf_op0 = pf_op
    /\ pf_pc = "idle"
    /\ pf_failed = NONE
    /\ pf_confirmed = {}
    /\ pf_answers = <<>>
    /\ pf_ret = NONE

\* the defaults and command-line values parse_commandline() leaves
PfxInit ==
    /\ pf_build \in BOOLEAN
    /\ pf_op \in [expert : BOOLEAN, distro : {"UBUNTU", "OTHER"},
                  xfree86_prefix : PrefixValues,
                  x_module_path : {NullStr} \cup PrefixValues,
                  opengl_prefix : PrefixValues,
                  compat32_prefix : {NullStr, <<"/", "u", "/">>},
                  installer_prefix : PrefixValues,
                  utility_prefix : PrefixValues]
    /\ pf_op0 = pf_op
    /\ pf_pc = "xfree86_prefix"
    /\ pf_failed = NONE
    /\ pf_confirmed = {}
    /\ pf_answers = <<>>
    /\ pf_ret = NONE

\* files.c:751-763
GetPrefixesXfree86 ==
    /\ pf_pc = "xfree86_prefix"
    /\ GetPrefix("xfree86_prefix", pf_op.xfree86_prefix, "x_module_path")
    /\ UNCHANGED <<pf_build, pf_op0>>
    /\ UNCHANGED notPfx

\* files.c:770-786
GetPrefixesXModulePath ==
    /\ pf_pc = "x_module_path"
    /\ \E dir \in ModuleDirs :
        GetPrefix("x_module_path", GetXModulePath(pf_build, pf_op, dir),
                  "opengl_prefix")
    /\ UNCHANGED <<pf_build, pf_op0>>
    /\ UNCHANGED notPfx

\* files.c:788-800
GetPrefixesOpenGL ==
    /\ pf_pc = "opengl_prefix"
    /\ GetPrefix("opengl_prefix", pf_op.opengl_prefix,
                 IF pf_build THEN "compat32_prefix" ELSE "installer_prefix")
    /\ UNCHANGED <<pf_build, pf_op0>>
    /\ UNCHANGED notPfx

\* files.c:802-815  compiled on NV_X86_64 only
GetPrefixesCompat32 ==
    /\ pf_pc = "compat32_prefix"
    /\ GetPrefix("compat32_prefix", pf_op.compat32_prefix, "installer_prefix")
    /\ UNCHANGED <<pf_build, pf_op0>>
    /\ UNCHANGED notPfx

\* files.c:817-830
GetPrefixesInstaller ==
    /\ pf_pc = "installer_prefix"
    /\ GetPrefix("installer_prefix", pf_op.installer_prefix, "returned")
    /\ UNCHANGED <<pf_build, pf_op0>>
    /\ UNCHANGED notPfx

PfxNext ==
    \/ GetPrefixesXfree86
    \/ GetPrefixesXModulePath
    \/ GetPrefixesOpenGL
    \/ GetPrefixesCompat32
    \/ GetPrefixesInstaller

\* ---- extract_version_string (misc.c) -------------------------------------
IsDigit(c) == c \in {"0", "1", "2", "3", "4", "5", "6", "7", "8", "9"}

IsSpace(c) == c \in {" ", "\t", "\n"}

STATE_IN_VERSION == "STATE_IN_VERSION"

STATE_NOT_IN_VERSION == "STATE_NOT_IN_VERSION"

STATE_LOOKING_FOR_VERSION == "STATE_LOOKING_FOR_VERSION"

STATE_FOUND_VERSION == "STATE_FOUND_VERSION"

\* misc.c:953, 986  `(x - start) >= 5`
MinVersionLength == 5

\* misc.c:916-989  the state machine from position x on: the final state
\* and the bounds of the version found (start inclusive, end exclusive)
RECURSIVE ScanVersion(_, _, _, _)
ScanVersion(str, x, state, start) ==
    IF x > Len(str)
    THEN IF state = STATE_IN_VERSION /\ x - start >= MinVersionLength
         THEN [state |-> STATE_FOUND_VERSION, start |-> start, end |-> x]
         ELSE [state |-> state, start |-> start, end |-> 0]
    ELSE LET c == str[x] IN
         IF state = STATE_LOOKING_FOR_VERSION
         THEN IF IsDigit(c)
              THEN ScanVersion(str, x + 1, STATE_IN_VERSION, x)
              ELSE IF IsSpace(c) \/ c = "("
              THEN ScanVersion(str, x + 1, STATE_LOOKING_FOR_VERSION, start)
              ELSE ScanVersion(str, x + 1, STATE_NOT_IN_VERSION, start)
         ELSE IF state = STATE_IN_VERSION
         THEN IF IsDigit(c) \/ c = "."
              THEN ScanVersion(str, x + 1, STATE_IN_VERSION, start)
              ELSE IF (IsSpace(c) \/ c = ")") /\ x - start >= MinVersionLength
              THEN [state |-> STATE_FOUND_VERSION, start |-> start, end |-> x]
              ELSE ScanVersion(str, x + 1, STATE_NOT_IN_VERSION, start)
         ELSE IF IsSpace(c) \/ c = "("
              THEN ScanVersion(str, x + 1, STATE_LOOKING_FOR_VERSION, start)
              ELSE ScanVersion(str, x + 1, STATE_NOT_IN_VERSION, start)

\* misc.c:1007-1014  the old X.Y-ZZZZ format at position x
OldFormatAt(str, x) ==
    /\ x + 7 <= Len(str)
    /\ IsDigit(str[x]) /\ str[x + 1] = "." /\ IsDigit(str[x + 2])
    /\ str[x + 3] = "-"
    /\ \A k \in 4..7 : IsDigit(str[x + k])

\* extract_version_string(): the version as a string, NULL if there is none
ExtractVersion(str) ==
    IF str = NullStr THEN NullStr
    ELSE LET r == ScanVersion(str, 1, STATE_LOOKING_FOR_VERSION, 0)
             old == {x \in 1..Len(str) : OldFormatAt(str, x)}
         IN IF r.state = STATE_FOUND_VERSION
            THEN SubSeq(str, r.start, r.end - 1)
            ELSE IF old # {}
            THEN LET x == CHOOSE x \in old : \A y \in old : x <= y
                 IN SubSeq(str, x, x + 7)
            ELSE NullStr

\* the pieces input strings are made of
VersionPieces ==
    {<<"2">>, <<".">>, <<" ">>, <<"(">>, <<")">>, <<"a">>,
     <<"1", ".", "2", ".", "1">>,
     <<"1", ".", "0", "-", "1", "2", "3", "4">>}

RECURSIVE Flatten(_)
Flatten(pieces) ==
    IF pieces = <<>> THEN <<>> ELSE Head(pieces) \o Flatten(Tail(pieces))

VersionInputs ==
    {NullStr} \cup
    {Flatten(p) : p \in UNION {[1..n -> VersionPieces] : n \in 0..MaxPieces}}

VerIdle ==
    /\ ver_str = NullStr
    /\ ver_pc = "idle"
    /\ ver_ret = NullStr

VerInit ==
    /\ ver_str \in VersionInputs
    /\ ver_pc = "called"
    /\ ver_ret = NullStr

ExtractVersionString ==
    /\ ver_pc = "called"
    /\ ver_ret' = ExtractVersion(ver_str)
    /\ ver_pc' = "returned"
    /\ UNCHANGED ver_str
    /\ UNCHANGED notVer

VerNext == ExtractVersionString

\* ---- check_installed_files_from_package (misc.c) -------------------------
FILE_TYPE_SYMLINK ==
    {"FILE_TYPE_OPENGL_SYMLINK", "FILE_TYPE_XLIB_SYMLINK",
     "FILE_TYPE_TLS_SYMLINK", "FILE_TYPE_XMODULE_SYMLINK"}

FILE_TYPE_INSTALLABLE_FILE ==
    {"FILE_TYPE_OPENGL_LIB", "FILE_TYPE_XLIB_SHARED_LIB",
     "FILE_TYPE_XLIB_STATIC_LIB", "FILE_TYPE_XMODULE_SHARED_LIB",
     "FILE_TYPE_XMODULE_STATIC_LIB", "FILE_TYPE_TLS_LIB",
     "FILE_TYPE_LIBGL_LA", "FILE_TYPE_OPENGL_HEADER",
     "FILE_TYPE_DOCUMENTATION", "FILE_TYPE_INSTALLER_BINARY",
     "FILE_TYPE_UTILITY_BINARY", "FILE_TYPE_DOT_DESKTOP",
     "FILE_TYPE_KERNEL_MODULE_SRC", "FILE_TYPE_XORG_OUTPUTCLASS_CONFIG"}

\* get_installable_file_mask()
GetInstallableFileMask(op) ==
    ((FILE_TYPE_INSTALLABLE_FILE
        \ (IF ~op.opengl_headers THEN {"FILE_TYPE_OPENGL_HEADER"} ELSE {}))
        \ (IF op.no_kernel_module_source
           THEN {"FILE_TYPE_KERNEL_MODULE_SRC"} ELSE {}))
        \ (IF ~op.xorg_supports_output_class
           THEN {"FILE_TYPE_XORG_OUTPUTCLASS_CONFIG"} ELSE {})

\* what is found at a destination: what was installed, nothing, or
\* something else (another link target, file type or mode)
DiskStates == {"ok", "missing", "differs"}

\* check_symlink(): the link exists and points to the target
CheckSymlink(d) == d = "ok"

\* check_file() with crc 0: the file exists, is regular, has the mode
CheckFile(d) == d = "ok"

ChkFlags ==
    {{"FILE_TYPE_OPENGL_SYMLINK"}, {"FILE_TYPE_OPENGL_LIB"},
     {"FILE_TYPE_OPENGL_HEADER"}, {"FILE_TYPE_KERNEL_MODULE"}, {}}

ChkIdle ==
    /\ chk_op = [opengl_headers |-> FALSE, no_kernel_module_source |-> FALSE,
                 xorg_supports_output_class |-> FALSE]
    /\ chk_entries = <<>>
    /\ chk_disk = <<>>
    /\ chk_i = 0
    /\ chk_pc = "idle"
    /\ chk_visits = <<>>
    /\ chk_warned = <<>>
    /\ chk_ret = TRUE
    /\ chk_log = NONE

ChkInit ==
    /\ chk_op \in [opengl_headers : BOOLEAN, no_kernel_module_source : {FALSE},
                   xorg_supports_output_class : {FALSE}]
    /\ chk_entries \in [1..MaxEntries -> ChkFlags]
    /\ chk_disk \in [1..MaxEntries -> DiskStates]
    /\ chk_i = 1
    /\ chk_pc = "loop"
    /\ chk_visits = [i \in 1..MaxEntries |-> 0]
    /\ chk_warned = <<>>
    /\ chk_ret = TRUE
    /\ chk_log = NONE

\* "the check made of entry i fails"
ChkFails(i) ==
    IF chk_entries[i] \cap FILE_TYPE_SYMLINK # {}
    THEN ~CheckSymlink(chk_disk[i])
    ELSE IF chk_entries[i] \cap GetInstallableFileMask(chk_op) # {}
    THEN ~CheckFile(chk_disk[i])
    ELSE FALSE

\* Faulty variant: the scan stops at the first entry that fails its check.
CifVisit_StopAtFailure ==
    /\ chk_pc = "loop"
    /\ chk_i <= Len(chk_entries)
    /\ chk_visits' = [chk_visits EXCEPT ![chk_i] = @ + 1]
    /\ IF ChkFails(chk_i)
       THEN /\ chk_warned' = Append(chk_warned, chk_i)
            /\ chk_ret' = FALSE
            /\ chk_i' = Len(chk_entries) + 1
       ELSE /\ chk_i' = chk_i + 1
            /\ UNCHANGED <<chk_warned, chk_ret>>
    /\ UNCHANGED <<chk_op, chk_entries, chk_disk, chk_pc, chk_log>>
    /\ UNCHANGED notChk

\* misc.c:1163-1181  one iteration of the loop
CifVisit ==
    /\ chk_pc = "loop"
    /\ chk_i <= Len(chk_entries)
    /\ chk_visits' = [chk_visits EXCEPT ![chk_i] = @ + 1]
    /\ IF ChkFails(chk_i)
       THEN /\ chk_warned' = Append(chk_warned, chk_i)
            /\ chk_ret' = FALSE
       ELSE UNCHANGED <<chk_warned, chk_ret>>
    /\ chk_i' = chk_i + 1
    /\ UNCHANGED <<chk_op, chk_entries, chk_disk, chk_pc, chk_log>>
    /\ UNCHANGED notChk

\* misc.c:1183-1184  the verdict is logged
CifLog ==
    /\ chk_pc = "loop"
    /\ chk_i > Len(chk_entries)
    /\ chk_log' = IF chk_ret THEN "passed" ELSE "failed"
    /\ chk_pc' = "returned"
    /\ UNCHANGED <<chk_op, chk_entries, chk_disk, chk_i, chk_visits,
                   chk_warned, chk_ret>>
    /\ UNCHANGED notChk

ChkNext == CifVisit \/ CifLog

\* ---- rtld_test_internal (misc.c) -----------------------------------------
\* What happens at one entry: it is filtered out (not runtime-linker
\* checked, other variant, no `.so.1` name); ldd or grep fails; the library
\* resolves to the destination, to another path to the same inode, to
\* another file; or it does not resolve.
RtldResults ==
    {"skipped", "ldd_failed", "grep_failed", "same", "same_inode", "other",
     "not_found"}

\* what rtld_test_internal() meets before the loop: no test program, a
\* temporary file that cannot be created, or both files created
RtldSetups == {"no_test", "no_tmpfile", "ready"}

RtldIdle ==
    /\ rt_compat = FALSE
    /\ rt_results = <<>>
    /\ rt_i = 0
    /\ rt_found = TRUE
    /\ rt_pc = "idle"
    /\ rt_compared = {}
    /\ rt_ui = <<>>
    /\ rt_ret = NONE

\* misc.c:1620  found = TRUE, ret = TRUE
RtldInit ==
    /\ rt_compat \in BOOLEAN
    /\ rt_results \in [1..MaxEntries -> RtldResults]
    /\ rt_i = 1
    /\ rt_found = TRUE
    /\ rt_pc = "called"
    /\ rt_compared = {}
    /\ rt_ui = <<>>
    /\ rt_ret = NONE

RtldUi(kind, i) == [kind |-> kind, entry |-> i]

\* misc.c:1626-1655  the test program is written to temporary files
RtldSetup ==
    /\ rt_pc = "called"
    /\ \E s \in RtldSetups :
        IF s = "ready"
        THEN /\ rt_pc' = "loop"
             /\ UNCHANGED <<rt_ui, rt_ret>>
        ELSE /\ rt_ui' = Append(rt_ui, RtldUi("warn", 0))
             /\ rt_ret' = T
             /\ rt_pc' = "returned"
    /\ UNCHANGED <<rt_compat, rt_results, rt_i, rt_found, rt_compared>>
    /\ UNCHANGED notRtld

\* misc.c:1659-1680  an entry the loop passes over
RtldSkip ==
    /\ rt_pc = "loop"
    /\ rt_i <= Len(rt_results)
    /\ rt_results[rt_i] = "skipped"
    /\ rt_i' = rt_i + 1
    /\ UNCHANGED <<rt_compat, rt_results, rt_found, rt_pc, rt_compared,
                   rt_ui, rt_ret>>
    /\ UNCHANGED notRtld

\* misc.c:1687-1711  ldd or grep cannot be run: warning, success assumed
RtldUnable ==
    /\ rt_pc = "loop"
    /\ rt_i <= Len(rt_results)
    /\ rt_results[rt_i] \in {"ldd_failed", "grep_failed"}
    /\ rt_ui' = Append(rt_ui, RtldUi("warn", rt_i))
    /\ rt_ret' = T
    /\ rt_pc' = "returned"
    /\ UNCHANGED <<rt_compat, rt_results, rt_i, rt_found, rt_compared>>
    /\ UNCHANGED notRtld

\* misc.c:1713-1790  the linker's answer is compared with the destination;
\* `found` is cleared by an unresolved library and never set again
RtldCompare ==
    /\ rt_pc = "loop"
    /\ rt_i <= Len(rt_results)
    /\ rt_results[rt_i] \in {"same", "same_inode", "other", "not_found"}
    /\ LET r == rt_results[rt_i]
           found == rt_found /\ r # "not_found"
       IN /\ rt_found' = found
          /\ rt_compared' = rt_compared \cup {rt_i}
          /\ IF found /\ r = "same"
             THEN /\ rt_i' = rt_i + 1
                  /\ UNCHANGED <<rt_ui, rt_ret, rt_pc>>
             ELSE IF r \in {"same", "same_inode"}
             THEN /\ rt_i' = rt_i + 1
                  /\ UNCHANGED <<rt_ui, rt_ret, rt_pc>>
             ELSE IF ~found /\ ~rt_compat
             THEN /\ rt_ui' = Append(rt_ui, RtldUi("error", rt_i))
                  /\ rt_ret' = F
                  /\ rt_pc' = "returned"
                  /\ UNCHANGED rt_i
             ELSE IF ~found
             THEN /\ rt_ui' = Append(rt_ui, RtldUi("warn", rt_i))
                  /\ rt_i' = rt_i + 1
                  /\ UNCHANGED <<rt_ret, rt_pc>>
             ELSE /\ rt_ui' = Append(rt_ui, RtldUi("error", rt_i))
                  /\ rt_ret' = F
                  /\ rt_pc' = "returned"
                  /\ UNCHANGED rt_i
    /\ UNCHANGED <<rt_compat, rt_results>>
    /\ UNCHANGED notRtld

\* misc.c:1798-1812  the loop has run out: ret is still TRUE
RtldDone ==
    /\ rt_pc = "loop"
    /\ rt_i > Len(rt_results)
    /\ rt_ret' = T
    /\ rt_pc' = "returned"
    /\ UNCHANGED <<rt_compat, rt_results, rt_i, rt_found, rt_compared, rt_ui>>
    /\ UNCHANGED notRtld

RtldNext == RtldSetup \/ RtldSkip \/ RtldUnable \/ RtldCompare \/ RtldDone

\* ---- check_proc_modprobe_path (misc.c) -----------------------------------
ModprobePaths == {"/sbin/modprobe", "/bin/modprobe", "/opt/modprobe"}

\* access(path, F_OK | X_OK) == 0; access(NULL, ...) fails with EFAULT
Access(path) == path # NULL /\ path \in mp_exec

MpIdle ==
    /\ mp_proc = NULL
    /\ mp_util = NULL
    /\ mp_exec = {}
    /\ mp_pc = "idle"
    /\ mp_ui = NONE
    /\ mp_ret = NONE

\* buf is NULL when the file cannot be opened or read
MpInit ==
    /\ mp_proc \in {NULL} \cup ModprobePaths
    /\ mp_util \in ModprobePaths
    /\ mp_exec \in SUBSET ModprobePaths
    /\ mp_pc = "called"
    /\ mp_ui = NONE
    /\ mp_ret = NONE

\* check_proc_modprobe_path(op)
CheckProcModprobePath ==
    /\ mp_pc = "called"
    /\ LET buf == mp_proc IN
       IF buf # NULL /\ buf # mp_util
       THEN IF Access(buf)
            THEN mp_ui' = "warn" /\ mp_ret' = T
            ELSE mp_ui' = "error" /\ mp_ret' = F
       ELSE IF buf = NULL /\ mp_util # "/sbin/modprobe"
       THEN IF Access(buf)
            THEN mp_ui' = "warn" /\ mp_ret' = T
            ELSE mp_ui' = "error" /\ mp_ret' = F
       ELSE mp_ui' = NONE /\ mp_ret' = T
    /\ mp_pc' = "returned"
    /\ UNCHANGED <<mp_proc, mp_util, mp_exec>>
    /\ UNCHANGED notMp

MpNext == CheckProcModprobePath

\* ---- the routines that ask a yes/no question -----------------------------
AskRoutines ==
    {"confirm_path", "check_for_existing_rpms", "check_runlevel",
     "run_distro_hook", "check_for_nouveau"}

YesNo(b) == IF b THEN "yes" ELSE "no"

Asked(routine, b) == [by |-> routine, answer |-> YesNo(b)]

AskIdle ==
    /\ ask_routine = NONE
    /\ ask_pc = "idle"
    /\ ask_answers = <<>>
    /\ ask_ret = NONE

AskInit ==
    /\ ask_routine \in AskRoutines
    /\ ask_pc = "called"
    /\ ask_answers = <<>>
    /\ ask_ret = NONE

\* a call of check_for_nouveau() starts from the states of that routine
AskCheckForNouveauInit ==
    IF ask_routine = "check_for_nouveau" THEN NouveauInit ELSE NouveauIdle

\* confirm_path(op, path)
AskConfirmPath ==
    /\ ask_routine = "confirm_path"
    /\ ask_pc = "called"
    /\ \E c \in ConfirmOutcomes :
        /\ ask_answers' = ConfirmPrompts(c)
        /\ ask_ret' = IF ConfirmPath(c) THEN T ELSE F
    /\ ask_pc' = "returned"
    /\ UNCHANGED ask_routine
    /\ UNCHANGED notAsk

\* files.c:1273  the rpms looked for, in dependency order
rpms == <<"NVIDIA_GLX", "NVIDIA_kernel">>

\* files.c:1283-1314  the loop of check_for_existing_rpms() from rpm i on:
\* an installed rpm is asked about, "no" aborts, "yes" erases it
RECURSIVE ExistingRpmsFrom(_, _, _)
ExistingRpmsFrom(i, installed, answer) ==
    IF i > Len(rpms) THEN [answers |-> <<>>, ret |-> T]
    ELSE IF ~installed[i] THEN ExistingRpmsFrom(i + 1, installed, answer)
    ELSE IF ~answer[i]
    THEN [answers |-> <<Asked("check_for_existing_rpms", FALSE)>>, ret |-> F]
    ELSE LET rest == ExistingRpmsFrom(i + 1, installed, answer)
         IN [answers |-> <<Asked("check_for_existing_rpms", TRUE)>>
                          \o rest.answers,
             ret |-> rest.ret]

\* check_for_existing_rpms(op)
AskCheckForExistingRpms ==
    /\ ask_routine = "check_for_existing_rpms"
    /\ ask_pc = "called"
    /\ \E no_rpms \in BOOLEAN, installed \in [1..Len(rpms) -> BOOLEAN],
          answer \in [1..Len(rpms) -> BOOLEAN] :
        LET r == ExistingRpmsFrom(1, installed, answer)
        IN /\ ask_answers' = IF no_rpms THEN <<>> ELSE r.answers
           /\ ask_ret' = IF no_rpms THEN T ELSE r.ret
    /\ ask_pc' = "returned"
    /\ UNCHANGED ask_routine
    /\ UNCHANGED notAsk

\* what check_runlevel() learns: the check is disabled, `runlevel` is not
\* found, fails or prints something else, or the runlevel it prints
Runlevels == {"no_check", "no_util", "failed", "unrecognized",
              "1", "s", "S", "3", "5"}

\* check_runlevel(op): in runlevel 1 the question is "Quit installation
\* now?"
AskCheckRunlevel ==
    /\ ask_routine = "check_runlevel"
    /\ ask_pc = "called"
    /\ \E runlevel \in Runlevels, quit \in BOOLEAN :
        IF runlevel \in {"s", "S", "1"}
        THEN /\ ask_answers' = <<Asked("check_runlevel", quit)>>
             /\ ask_ret' = IF quit THEN F ELSE T
        ELSE /\ ask_answers' = <<>>
             /\ ask_ret' = T
    /\ ask_pc' = "returned"
    /\ UNCHANGED ask_routine
    /\ UNCHANGED notAsk

\* run_distro_hook(op, hook)
AskRunDistroHook ==
    /\ ask_routine = "run_distro_hook"
    /\ ask_pc = "called"
    /\ \E op \in [kernel_module_only : BOOLEAN, expert : BOOLEAN,
                  run_distro_scripts : BOOLEAN],
          executable \in BOOLEAN, answer \in BOOLEAN, status \in 0..1 :
        LET shouldrun == IF op.expert THEN answer ELSE op.run_distro_scripts
        IN IF op.kernel_module_only \/ ~executable
           THEN /\ ask_answers' = <<>>
                /\ ask_ret' = T
           ELSE /\ ask_answers' = IF op.expert
                                  THEN <<Asked("run_distro_hook", answer)>>
                                  ELSE <<>>
                /\ ask_ret' = IF ~shouldrun THEN T
                              ELSE IF status = 0 THEN T ELSE F
    /\ ask_pc' = "returned"
    /\ UNCHANGED ask_routine
    /\ UNCHANGED notAsk

\* check_for_nouveau() is run by its own steps
AskNext ==
    \/ AskConfirmPath
    \/ AskCheckForExistingRpms
    \/ AskCheckRunlevel
    \/ AskRunDistroHook
    \/ NvCheck
    \/ NvAlreadyBlacklisted
    \/ NvPromptAndBlacklist
    \/ NvReturn

\* ---- the functions that map files ----------------------------------------
MapFunctions ==
    {"copy_file", "write_temp_file", "get_license_acceptance",
     "process_template_file"}

MapIdle ==
    /\ mm_fn = NONE
    /\ mm_pc = "idle"
    /\ mm_size = 0
    /\ mm_maps = {}
    /\ mm_fds = {}
    /\ mm_ret = NONE

MapInit ==
    /\ mm_fn \in MapFunctions
    /\ mm_pc = "open"
    /\ mm_size \in 0..MaxSize
    /\ mm_maps = {}
    /\ mm_fds = {}
    /\ mm_ret = NONE

\* one system call of the function running: it succeeds and the function
\* goes on at `next` with the mappings and descriptors it then holds, or it
\* fails and the function goes on at `failed`
MapCall(next, maps, fds, failed) ==
    \/ /\ mm_pc' = next
       /\ mm_maps' = maps
       /\ mm_fds' = fds
    \/ /\ mm_pc' = failed
       /\ UNCHANGED <<mm_maps, mm_fds>>

MapReturn(ret) ==
    /\ mm_pc' = "returned"
    /\ mm_ret' = ret
    /\ UNCHANGED <<mm_maps, mm_fds>>

\* copy_file(op, srcfile, dstfile, mode), one system call at a time; `fail:`
\* returns FALSE and does nothing else
CopyFileStep ==
    /\ mm_fn = "copy_file"
    /\ mm_pc \notin {"idle", "returned"}
    /\ CASE mm_pc = "open" ->
              MapCall("open_dst", mm_maps, mm_fds \cup {"src_fd"}, "fail")
              /\ UNCHANGED mm_ret
         [] mm_pc = "open_dst" ->
              MapCall("fstat", mm_maps, mm_fds \cup {"dst_fd"}, "fail")
              /\ UNCHANGED mm_ret
         [] mm_pc = "fstat" ->
              MapCall(IF mm_size = 0 THEN "done" ELSE "lseek", mm_maps, mm_fds,
                      "fail")
              /\ UNCHANGED mm_ret
         [] mm_pc = "lseek" ->
              MapCall("write", mm_maps, mm_fds, "fail") /\ UNCHANGED mm_ret
         [] mm_pc = "write" ->
              MapCall("mmap_src", mm_maps, mm_fds, "fail") /\ UNCHANGED mm_ret
         [] mm_pc = "mmap_src" ->
              MapCall("mmap_dst", mm_maps \cup {"src"}, mm_fds, "fail")
              /\ UNCHANGED mm_ret
         [] mm_pc = "mmap_dst" ->
              MapCall("munmap_src", mm_maps \cup {"dst"}, mm_fds, "fail")
              /\ UNCHANGED mm_ret
         [] mm_pc = "munmap_src" ->
              /\ mm_pc' \in {"munmap_dst", "fail"}
              /\ mm_maps' = mm_maps \ {"src"}
              /\ UNCHANGED <<mm_fds, mm_ret>>
         [] mm_pc = "munmap_dst" ->
              /\ mm_pc' \in {"done", "fail"}
              /\ mm_maps' = mm_maps \ {"dst"}
              /\ UNCHANGED <<mm_fds, mm_ret>>
         [] mm_pc = "done" ->
              /\ mm_pc' = "returned"
              /\ mm_fds' = mm_fds \ {"src_fd", "dst_fd"}
              /\ mm_ret' = T
              /\ UNCHANGED mm_maps
         [] mm_pc = "fail" -> MapReturn(F)
    /\ UNCHANGED <<mm_fn, mm_size>>
    /\ UNCHANGED notMap

\* write_temp_file(op, len, data, perm): `done:` unmaps what was mapped and
\* closes what was opened
WriteTempFileStep ==
    /\ mm_fn = "write_temp_file"
    /\ mm_pc \notin {"idle", "returned"}
    /\ CASE mm_pc = "open" ->
              MapCall("lseek", mm_maps, mm_fds \cup {"fd"}, "done")
              /\ UNCHANGED mm_ret
         [] mm_pc = "lseek" ->
              MapCall("write", mm_maps, mm_fds, "done") /\ UNCHANGED mm_ret
         [] mm_pc = "write" ->
              MapCall("mmap_dst", mm_maps, mm_fds, "done") /\ UNCHANGED mm_ret
         [] mm_pc = "mmap_dst" ->
              MapCall("fchmod", mm_maps \cup {"dst"}, mm_fds, "done")
              /\ UNCHANGED mm_ret
         [] mm_pc = "fchmod" ->
              /\ mm_pc' = "done"
              /\ mm_ret' \in {T, NONE}
              /\ UNCHANGED <<mm_maps, mm_fds>>
         [] mm_pc = "done" ->
              /\ mm_pc' = "close"
              /\ mm_maps' = mm_maps \ {"dst"}
              /\ UNCHANGED <<mm_fds, mm_ret>>
         [] mm_pc = "close" ->
              /\ mm_pc' = "returned"
              /\ mm_fds' = {}
              /\ mm_ret' = IF mm_ret = T THEN T ELSE NULL
              /\ UNCHANGED mm_maps
    /\ UNCHANGED <<mm_fn, mm_size>>
    /\ UNCHANGED notMap

\* get_license_acceptance(op): `failed:` reports and returns FALSE
GetLicenseAcceptanceStep ==
    /\ mm_fn = "get_license_acceptance"
    /\ mm_pc \notin {"idle", "returned"}
    /\ CASE mm_pc = "open" ->
              \/ MapReturn(T)
              \/ MapCall("fstat", mm_maps, mm_fds \cup {"fd"}, "fail")
                 /\ UNCHANGED mm_ret
         [] mm_pc = "fstat" ->
              MapCall("mmap_src", mm_maps, mm_fds, "fail") /\ UNCHANGED mm_ret
         [] mm_pc = "mmap_src" ->
              MapCall("display", mm_maps \cup {"text"}, mm_fds, "fail")
              /\ UNCHANGED mm_ret
         [] mm_pc = "display" ->
              /\ mm_pc' = "returned"
              /\ mm_maps' = mm_maps \ {"text"}
              /\ mm_fds' = mm_fds \ {"fd"}
              /\ mm_ret' \in {T, F}
         [] mm_pc = "fail" -> MapReturn(F)
    /\ UNCHANGED <<mm_fn, mm_size>>
    /\ UNCHANGED notMap

\* process_template_file(op, pe, tokens, replacements): `done:` unmaps what
\* was mapped and closes what was opened; a failed call returns NULL
ProcessTemplateFileStep ==
    /\ mm_fn = "process_template_file"
    /\ mm_pc \notin {"idle", "returned"}
    /\ CASE mm_pc = "open" ->
              \/ /\ mm_pc' = "fstat"
                 /\ mm_fds' = mm_fds \cup {"src_fd"}
                 /\ UNCHANGED <<mm_maps, mm_ret>>
              \/ MapReturn(NULL)
         [] mm_pc = "fstat" ->
              MapCall("mmap_src", mm_maps, mm_fds, "failed") /\ UNCHANGED mm_ret
         [] mm_pc = "mmap_src" ->
              MapCall("mkstemp", mm_maps \cup {"src"}, mm_fds, "failed")
              /\ UNCHANGED mm_ret
         [] mm_pc = "mkstemp" ->
              MapCall("lseek", mm_maps, mm_fds \cup {"dst_fd"}, "failed")
              /\ UNCHANGED mm_ret
         [] mm_pc = "lseek" ->
              MapCall("write", mm_maps, mm_fds, "failed") /\ UNCHANGED mm_ret
         [] mm_pc = "write" ->
              MapCall("mmap_dst", mm_maps, mm_fds, "failed")
              /\ UNCHANGED mm_ret
         [] mm_pc = "mmap_dst" ->
              MapCall("done", mm_maps \cup {"dst"}, mm_fds, "failed")
              /\ UNCHANGED mm_ret
         [] mm_pc \in {"done", "failed"} ->
              /\ mm_pc' = "returned"
              /\ mm_maps' = mm_maps \ {"src", "dst"}
              /\ mm_fds' = mm_fds \ {"src_fd", "dst_fd"}
              /\ mm_ret' = IF mm_pc = "failed" THEN NULL ELSE T
    /\ UNCHANGED <<mm_fn, mm_size>>
    /\ UNCHANGED notMap

MapNext ==
    \/ CopyFileStep
    \/ WriteTempFileStep
    \/ GetLicenseAcceptanceStep
    \/ ProcessTemplateFileStep

\* ---- mkdir_recursive (files.c) -------------------------------------------
\* the directory a path names: absolute or not, and its components (here of
\* one character each, empty components dropped as the kernel drops them)
NotSlash(ch) == ch # "/"

Resolve(path) ==
    [abs |-> path # <<>> /\ path[1] = "/", comps |-> SelectSeq(path, NotSlash)]

RootDir == [abs |-> TRUE, comps |-> <<>>]

WorkDir == [abs |-> FALSE, comps |-> <<>>]

ParentDir(d) ==
    [abs |-> d.abs, comps |-> SubSeq(d.comps, 1, Len(d.comps) - 1)]

\* directory_exists(op, dir): stat() fails on the empty string
DirectoryExists(dirs, dir) ==
    dir # <<>> /\ Resolve(dir) \in dirs \cup {RootDir, WorkDir}

\* mkdir(tmp, mode) succeeds on a non-empty name that does not exist, whose
\* parent does, when the system lets it
MkdirSucceeds(dirs, deny, tmp) ==
    /\ tmp # <<>>
    /\ ~DirectoryExists(dirs, tmp)
    /\ ParentDir(Resolve(tmp)) \in dirs \cup {RootDir, WorkDir}
    /\ Resolve(tmp) \notin deny

\* files.c:1041-1056  the do-while loop with tmp[c] the character looked at
\* (c counted from 1); the character after the end of tmp is its '\0'
RECURSIVE MkdirFrom(_, _, _, _)
MkdirFrom(tmp, c, dirs, deny) ==
    LET c1 == c + 1
        atEnd == c1 > Len(tmp)
        prefix == SubSeq(tmp, 1, IF atEnd THEN Len(tmp) ELSE c1 - 1)
        made == IF DirectoryExists(dirs, prefix) THEN dirs
                ELSE dirs \cup {Resolve(prefix)}
    IN IF ~atEnd /\ tmp[c1] # "/" THEN MkdirFrom(tmp, c1, dirs, deny)
       ELSE IF ~DirectoryExists(dirs, prefix)
               /\ ~MkdirSucceeds(dirs, deny, prefix)
       THEN [ret |-> F, dirs |-> dirs, failed |-> prefix]
       ELSE IF atEnd THEN [ret |-> T, dirs |-> made, failed |-> NullStr]
       ELSE MkdirFrom(tmp, c1, made, deny)

\* mkdir_recursive(op, path, mode); the copy of a path made only of slashes
\* is left empty by remove_trailing_slashes
MkdirRecursiveResult(path, dirs, deny) ==
    IF path = NullStr \/ path = <<>>
    THEN [ret |-> F, dirs |-> dirs, failed |-> NullStr]
    ELSE MkdirFrom(RemoveTrailingSlashes(path), 1, dirs, deny)

\* the paths asked for
MkdirPaths ==
    {<<>>, <<"/">>, <<"/", "/">>, <<"a">>, <<"a", "/">>, <<"/", "a">>,
     <<"a", "/", "b">>, <<"/", "a", "/", "b">>, <<"/", "a", "/", "b", "/">>,
     <<"/", "a", "/", "/", "b">>}

\* the directories there may be besides / and the working directory
MkdirDirs == {Resolve(p) : p \in MkdirPaths} \ {RootDir, WorkDir}

ParentClosed(dirs) ==
    \A d \in dirs : ParentDir(d) \in dirs \cup {RootDir, WorkDir}

MkdIdle ==
    /\ mk_path = NullStr
    /\ mk_dirs = {}
    /\ mk_dirs0 = {}
    /\ mk_deny = {}
    /\ mk_pc = "idle"
    /\ mk_failed = NullStr
    /\ mk_ret = NONE

MkdInit ==
    /\ mk_path \in MkdirPaths
    /\ mk_dirs \in {d \in SUBSET MkdirDirs : ParentClosed(d)}
    /\ mk_dirs0 = mk_dirs
    /\ mk_deny \in SUBSET MkdirDirs
    /\ Cardinality(mk_deny) <= 1
    /\ mk_pc = "called"
    /\ mk_failed = NullStr
    /\ mk_ret = NONE

MkdirRecursive ==
    /\ mk_pc = "called"
    /\ LET r == MkdirRecursiveResult(mk_path, mk_dirs, mk_deny)
       IN /\ mk_dirs' = r.dirs
          /\ mk_failed' = r.failed
          /\ mk_ret' = r.ret
    /\ mk_pc' = "returned"
    /\ UNCHANGED <<mk_path, mk_dirs0, mk_deny>>
    /\ UNCHANGED notMkd

MkdNext == MkdirRecursive

\* ---- touch_directory (files.c) -------------------------------------------
\* the time of a file nobody touched
OldTime == 0

TouchIdle ==
    /\ td_tree = [n \in Nodes |-> "none"]
    /\ td_times = [n \in Nodes |-> OldTime]
    /\ td_clock = 1
    /\ td_samples = <<>>
    /\ td_stack = <<>>
    /\ td_ret = NONE

\* touch_directory(op, "v") is entered on any tree of this shape
TouchInit ==
    /\ td_tree \in {t \in [Nodes -> {"none", "file", "dir"}] :
                      /\ \A n \in Nodes : t[n] \in KindsOf(n)
                      /\ \A n \in Nodes \ {"v"} :
                            t[n] # "none" => t[Parent(n)] = "dir"}
    /\ td_times = [n \in Nodes |-> OldTime]
    /\ td_clock = 1
    /\ td_samples = <<>>
    /\ td_stack = <<[dir |-> "v", opened |-> FALSE, todo |-> {},
                     time_buf |-> OldTime, filename |-> NONE]>>
    /\ td_ret = NONE

TdTop == td_stack[Len(td_stack)]

\* `ui_error(...); return FALSE;`: every caller returns FALSE in its turn
TdReturnFalse ==
    /\ td_stack' = <<>>
    /\ td_ret' = F

\* time passes while the installer runs
TdTick ==
    /\ td_stack # <<>>
    /\ td_clock < MaxClock
    /\ td_clock' = td_clock + 1
    /\ UNCHANGED <<td_tree, td_times, td_samples, td_stack, td_ret>>
    /\ UNCHANGED notTouch

\* files.c:133-151  lstat(victim), S_ISDIR, opendir(victim), time(NULL)
TdOpen ==
    /\ td_stack # <<>>
    /\ ~TdTop.opened
    /\ LET d == TdTop.dir IN
       \/ /\ td_tree[d] # "dir"
          /\ TdReturnFalse
          /\ UNCHANGED td_samples
       \/ /\ td_tree[d] = "dir"
          /\ \E ok \in BOOLEAN :
                IF ok
                THEN /\ td_stack' = [td_stack EXCEPT ![Len(td_stack)] =
                           [dir |-> d, opened |-> TRUE,
                            todo |-> {n \in Nodes : Parent(n) = d
                                                    /\ td_tree[n] # "none"},
                            time_buf |-> td_clock, filename |-> NONE]]
                     /\ td_samples' = Append(td_samples, td_clock)
                     /\ UNCHANGED td_ret
                ELSE TdReturnFalse /\ UNCHANGED td_samples
    /\ UNCHANGED <<td_tree, td_times, td_clock>>
    /\ UNCHANGED notTouch

\* files.c:155-175  one entry of the readdir loop up to the recursive call
TdEntry ==
    /\ td_stack # <<>>
    /\ TdTop.opened
    /\ TdTop.filename = NONE
    /\ \E e \in TdTop.todo, ok \in BOOLEAN :
          IF ~ok THEN TdReturnFalse
          ELSE /\ td_stack' =
                    LET s == [td_stack EXCEPT ![Len(td_stack)].todo = @ \ {e},
                                              ![Len(td_stack)].filename = e]
                    IN IF td_tree[e] = "dir"
                       THEN Append(s, [dir |-> e, opened |-> FALSE,
                                       todo |-> {}, time_buf |-> OldTime,
                                       filename |-> NONE])
                       ELSE s
               /\ UNCHANGED td_ret
    /\ UNCHANGED <<td_tree, td_times, td_clock, td_samples>>
    /\ UNCHANGED notTouch

\* files.c:177-185  utime(filename, &time_buf) of the entry at hand
TdUtime ==
    /\ td_stack # <<>>
    /\ TdTop.opened
    /\ TdTop.filename # NONE
    /\ \E ok \in BOOLEAN :
          IF ok
          THEN /\ td_times' = [td_times EXCEPT ![TdTop.filename] =
                                   TdTop.time_buf]
               /\ td_stack' = [td_stack EXCEPT ![Len(td_stack)].filename = NONE]
               /\ UNCHANGED td_ret
          ELSE TdReturnFalse /\ UNCHANGED td_times
    /\ UNCHANGED <<td_tree, td_clock, td_samples>>
    /\ UNCHANGED notTouch

\* files.c:188-193  closedir(dir) and return TRUE
TdClose ==
    /\ td_stack # <<>>
    /\ TdTop.opened
    /\ TdTop.filename = NONE
    /\ TdTop.todo = {}
    /\ \E ok \in BOOLEAN :
          IF ok
          THEN /\ td_stack' = SubSeq(td_stack, 1, Len(td_stack) - 1)
               /\ td_ret' = IF Len(td_stack) = 1 THEN T ELSE td_ret
          ELSE TdReturnFalse
    /\ UNCHANGED <<td_tree, td_times, td_clock, td_samples>>
    /\ UNCHANGED notTouch

TouchNext ==
    \/ TdTick
    \/ TdOpen
    \/ TdEntry
    \/ TdUtime
    \/ TdClose

\* ---- process_libGL_la_files, process_dot_desktop_files (files.c) ---------
\* the classification bits of a flag word
FILE_CLASS_MASK ==
    {FILE_CLASS_NATIVE, FILE_CLASS_COMPAT32, FILE_CLASS_NEW_TLS,
     FILE_CLASS_CLASSIC_TLS}

\* Faulty variant: the new entry gets the role alone.
TplAppended_RoleOnly(e, role, tmpfile, dst) ==
    [file |-> tmpfile, path |-> e.path, name |-> e.name, mode |-> e.mode,
     flags |-> {role}, dst |-> dst]

\* files.c:1718-1731  the entry added for the file generated from template
\* e, which was invalidated before; its dst is not assigned and holds what
\* the reallocated memory held
TplAppended(e, role, tmpfile, dst) ==
    [file |-> tmpfile, path |-> e.path, name |-> e.name, mode |-> e.mode,
     flags |-> (e.flags \cap FILE_CLASS_MASK) \cup {role}, dst |-> dst]

\* files.c:1702-1738  the loop from index i on, up to the package_num_entries
\* read before it; generated[i] tells whether process_template_file() gave
\* a file for entry i, unset is what the new memory holds
RECURSIVE ProcessTemplatesFrom(_, _, _, _, _, _, _)
ProcessTemplatesFrom(entries, i, package_num_entries, role, generated, unset, visited) ==
    IF i > package_num_entries
    THEN [entries |-> entries, visited |-> visited]
    ELSE IF role \notin entries[i].flags
    THEN ProcessTemplatesFrom(entries, i + 1, package_num_entries, role,
                              generated, unset, Append(visited, i))
    ELSE LET invalidated == [entries EXCEPT ![i].flags = @ \ FILE_TYPE_MASK,
                                            ![i].dst = NullStr]
         IN ProcessTemplatesFrom(
                IF generated[i]
                THEN Append(invalidated,
                            TplAppended(invalidated[i], role, "tmpfile",
                                        unset))
                ELSE invalidated,
                i + 1, package_num_entries, role, generated, unset,
                Append(visited, i))

\* the entries of a manifest: templates, a library, an invalidated entry
TplEntries ==
    {[file |-> "file", path |-> Str(p), name |-> Str("n"), mode |-> m,
      flags |-> t \cup c, dst |-> d] :
        p \in {"lib"}, m \in {"0644", "0755"},
        t \in {{"FILE_TYPE_LIBGL_LA"}, {"FILE_TYPE_DOT_DESKTOP"},
               {"FILE_TYPE_OPENGL_LIB"}, {}},
        c \in {{FILE_CLASS_NATIVE}, {FILE_CLASS_COMPAT32, FILE_CLASS_NEW_TLS}},
        d \in {NullStr, Str("/o/lib/n")}}

TplIdle ==
    /\ tpl_entries = <<>>
    /\ tpl_entries0 = <<>>
    /\ tpl_role = NONE
    /\ tpl_visited = <<>>
    /\ tpl_pc = "idle"

TplInit ==
    /\ tpl_entries \in [1..MaxEntries -> TplEntries]
    /\ tpl_entries0 = tpl_entries
    /\ tpl_role = NONE
    /\ tpl_visited = <<>>
    /\ tpl_pc = "called"

\* process_libGL_la_files(op, p)
ProcessLibGLLaFiles ==
    /\ tpl_pc = "called"
    /\ \E generated \in [1..Len(tpl_entries) -> BOOLEAN],
          unset \in {NullStr, Str("?")} :
        LET r == ProcessTemplatesFrom(tpl_entries, 1, Len(tpl_entries),
                                      "FILE_TYPE_LIBGL_LA", generated, unset,
                                      <<>>)
        IN /\ tpl_entries' = r.entries
           /\ tpl_visited' = r.visited
    /\ tpl_role' = "FILE_TYPE_LIBGL_LA"
    /\ tpl_pc' = "returned"
    /\ UNCHANGED tpl_entries0
    /\ UNCHANGED notTpl

\* process_dot_desktop_files(op, p)
ProcessDotDesktopFiles ==
    /\ tpl_pc = "called"
    /\ \E generated \in [1..Len(tpl_entries) -> BOOLEAN],
          unset \in {NullStr, Str("?")} :
        LET r == ProcessTemplatesFrom(tpl_entries, 1, Len(tpl_entries),
                                      "FILE_TYPE_DOT_DESKTOP", generated, unset,
                                      <<>>)
        IN /\ tpl_entries' = r.entries
           /\ tpl_visited' = r.visited
    /\ tpl_role' = "FILE_TYPE_DOT_DESKTOP"
    /\ tpl_pc' = "returned"
    /\ UNCHANGED tpl_entries0
    /\ UNCHANGED notTpl

TplNext ==
    \/ ProcessLibGLLaFiles
    \/ ProcessDotDesktopFiles

\* ---- nv_strreplace (files.c) ---------------------------------------------
\* the strings over a two-letter alphabet of at most n characters
StringsUpTo(n) == UNION {[1..k -> {"a", "b"}] : k \in 0..n}

ReplIdle ==
    /\ sr_src = <<>>
    /\ sr_orig = <<>>
    /\ sr_replace = <<>>
    /\ sr_prev = 1
    /\ sr_dst = <<>>
    /\ sr_pc = "idle"

\* nv_strreplace(src, orig, replace) is entered with prev_s = src and no dst
ReplInit ==
    /\ sr_src \in StringsUpTo(MaxSrc)
    /\ sr_orig \in StringsUpTo(2)
    /\ sr_replace \in StringsUpTo(2)
    /\ sr_prev = 1
    /\ sr_dst = <<>>
    /\ sr_pc = "loop"

\* files.c:1485-1522  one iteration of the do-while loop; realloc() returns
\* NULL once more than MaxDst characters are asked for, and the strncpy()
\* that follows ends the process
NvStrreplaceStep ==
    /\ sr_pc = "loop"
    /\ LET rest == SubSeq(sr_src, sr_prev, Len(sr_src))
           s == StrStr(rest, sr_orig)
           done == s = 0
           len == IF done THEN Len(rest) ELSE s - 1
           dst == sr_dst \o SubSeq(rest, 1, len)
                         \o (IF done THEN <<>> ELSE sr_replace)
       IN IF Len(dst) > MaxDst
          THEN /\ sr_pc' = "crashed"
               /\ UNCHANGED <<sr_dst, sr_prev>>
          ELSE /\ sr_dst' = dst
               /\ sr_prev' = IF done THEN sr_prev
                             ELSE sr_prev + len + Len(sr_orig)
               /\ sr_pc' = IF done THEN "returned" ELSE "loop"
    /\ UNCHANGED <<sr_src, sr_orig, sr_replace>>
    /\ UNCHANGED notRepl

ReplNext == NvStrreplaceStep

\* ---- the operations that change the manifest -----------------------------
\* `flags &= ~FILE_TYPE_MASK; dst = NULL;` on the entries at the indices hit
InvalidateWhere(entries, hit) ==
    [i \in 1..Len(entries) |->
        IF i \in hit
        THEN [entries[i] EXCEPT !.flags = @ \ FILE_TYPE_MASK, !.dst = NullStr]
        ELSE entries[i]]

\* a parsed manifest entry of a role and classes; the kernel module's entry
\* comes with its destination from add_kernel_module_to_package()
ManEntry(type, classes) ==
    [file |-> "file", path |-> LIB, name |-> Str("n"), mode |-> "0644",
     flags |-> {type} \cup classes,
     dst |-> IF type = "FILE_TYPE_KERNEL_MODULE" THEN Str("/k/n") ELSE NullStr]

ManEntries ==
    {ManEntry("FILE_TYPE_OPENGL_LIB", {FILE_CLASS_NATIVE, FILE_CLASS_NEW_TLS}),
     ManEntry("FILE_TYPE_TLS_LIB", {FILE_CLASS_COMPAT32, FILE_CLASS_NEW_TLS}),
     ManEntry("FILE_TYPE_OPENGL_LIB",
              {FILE_CLASS_COMPAT32, FILE_CLASS_CLASSIC_TLS}),
     ManEntry("FILE_TYPE_LIBGL_LA", {FILE_CLASS_NATIVE}),
     ManEntry("FILE_TYPE_DOT_DESKTOP", {FILE_CLASS_NATIVE}),
     ManEntry("FILE_TYPE_KERNEL_MODULE", {FILE_CLASS_NATIVE})}

ManIdle ==
    /\ man_entries = <<>>
    /\ man_ops = <<>>

ManInit ==
    /\ man_entries \in [1..MaxEntries -> ManEntries]
    /\ man_ops = <<>>

\* select_tls_class(op, p) on an NV_X86_64 build, the two tests failing or
\* not
ManSelectTlsClass ==
    /\ Len(man_ops) < MaxOps
    /\ \E failed \in SUBSET {FILE_CLASS_NATIVE, FILE_CLASS_COMPAT32} :
        LET hit == {i \in 1..Len(man_entries) :
                       /\ FILE_CLASS_NEW_TLS \in man_entries[i].flags
                       /\ man_entries[i].flags \cap failed # {}}
        IN man_entries' = InvalidateWhere(man_entries, hit)
    /\ man_ops' = Append(man_ops, "select_tls_class")
    /\ UNCHANGED notMan

\* should_install_compat32_files(op, p) on an NV_X86_64 build: the user
\* agrees or not
ManShouldInstallCompat32Files ==
    /\ Len(man_ops) < MaxOps
    /\ \E install_compat32_files \in BOOLEAN :
        LET hit == {i \in 1..Len(man_entries) :
                       FILE_CLASS_COMPAT32 \in man_entries[i].flags}
        IN man_entries' = IF install_compat32_files THEN man_entries
                          ELSE InvalidateWhere(man_entries, hit)
    /\ man_ops' = Append(man_ops, "should_install_compat32_files")
    /\ UNCHANGED notMan

\* process_libGL_la_files(op, p) and process_dot_desktop_files(op, p)
ManProcessTemplates ==
    /\ Len(man_ops) < MaxOps
    /\ \E role \in {"FILE_TYPE_LIBGL_LA", "FILE_TYPE_DOT_DESKTOP"},
          generated \in [1..Len(man_entries) -> BOOLEAN],
          unset \in {NullStr, Str("?")} :
        /\ man_entries' =
              ProcessTemplatesFrom(man_entries, 1, Len(man_entries), role,
                                   generated, unset, <<>>).entries
        /\ man_ops' = Append(man_ops, role)
    /\ UNCHANGED notMan

\* remove_non_kernel_module_files_from_package(op, p): the role is cleared,
\* dst is not touched
ManRemoveNonKernelModuleFiles ==
    /\ Len(man_ops) < MaxOps
    /\ man_entries' =
          [i \in 1..Len(man_entries) |->
              IF FileType(man_entries[i].flags) \notin
                     {{"FILE_TYPE_KERNEL_MODULE"},
                      {"FILE_TYPE_KERNEL_MODULE_CMD"}}
              THEN [man_entries[i] EXCEPT !.flags = @ \ FILE_TYPE_MASK]
              ELSE man_entries[i]]
    /\ man_ops' = Append(man_ops, "remove_non_kernel_module_files")
    /\ UNCHANGED notMan

\* set_destinations(op, p) on an NV_X86_64 build
ManSetDestinations ==
    /\ Len(man_ops) < MaxOps
    /\ \E distro \in Distributions :
        man_entries' =
            SetDestinationsFrom(TRUE, DestOptions(distro, NullStr), NullStr,
                                man_entries, 1).entries
    /\ man_ops' = Append(man_ops, "set_destinations")
    /\ UNCHANGED notMan

ManNext ==
    \/ ManSelectTlsClass
    \/ ManShouldInstallCompat32Files
    \/ ManProcessTemplates
    \/ ManRemoveNonKernelModuleFiles
    \/ ManSetDestinations

\* ---- remove_trailing_slashes, statement by statement ---------------------
\* the strings given: NULL, and the strings of slashes and letters
RtsInputs ==
    {NullStr} \cup
    UNION {[1..n -> {"/", "a"}] : n \in 0..MaxSrc}

RtsIdle ==
    /\ rts_s0 = <<>>
    /\ rts_s = <<>>
    /\ rts_before = <<>>
    /\ rts_len = 0
    /\ rts_low = 0
    /\ rts_pc = "idle"

\* the bytes before the string are whatever the caller's memory holds
RtsInit ==
    /\ rts_s0 \in RtsInputs
    /\ rts_s = rts_s0
    /\ rts_before \in [1..MaxBefore -> {"/", "x"}]
    /\ rts_len = 0
    /\ rts_low = 0
    /\ rts_pc = "called"

\* files.c:911-912  if (s == NULL) return; len = strlen(s);
RtsEnter ==
    /\ rts_pc = "called"
    /\ IF rts_s = NullStr
       THEN /\ rts_pc' = "returned"
            /\ UNCHANGED rts_len
       ELSE /\ rts_len' = Len(rts_s)
            /\ rts_pc' = "loop"
    /\ UNCHANGED <<rts_s0, rts_s, rts_before, rts_low>>
    /\ UNCHANGED notRts

\* files.c:914  while (s[len-1] == '/') s[--len] = '\0';  one evaluation of
\* the condition and, when it holds, of the body; memory further than
\* MaxBefore bytes before the string is not mapped
RtsLoopStep ==
    /\ rts_pc = "loop"
    /\ rts_low' = IF rts_len - 1 < rts_low THEN rts_len - 1 ELSE rts_low
    /\ IF rts_len - 1 >= 0
       THEN IF rts_s[rts_len] = "/"
            THEN /\ rts_s' = SubSeq(rts_s, 1, rts_len - 1)
                 /\ rts_len' = rts_len - 1
                 /\ UNCHANGED <<rts_before, rts_pc>>
            ELSE /\ rts_pc' = "returned"
                 /\ UNCHANGED <<rts_s, rts_before, rts_len>>
       ELSE IF 1 - rts_len > MaxBefore
            THEN /\ rts_pc' = "faulted"
                 /\ UNCHANGED <<rts_s, rts_before, rts_len>>
            ELSE IF rts_before[1 - rts_len] = "/"
                 THEN /\ rts_before' = [rts_before EXCEPT ![1 - rts_len] = "0"]
                      /\ rts_len' = rts_len - 1
                      /\ UNCHANGED <<rts_s, rts_pc>>
                 ELSE /\ rts_pc' = "returned"
                      /\ UNCHANGED <<rts_s, rts_before, rts_len>>
    /\ UNCHANGED rts_s0
    /\ UNCHANGED notRts

RtsNext ==
    \/ RtsEnter
    \/ RtsLoopStep

\* ---- specifications: one operation per behaviour ------------------------
InitRename ==
    RenameInit /\ RemoveIdle /\ RunIdle /\ UtilIdle /\ DkmsIdle /\
    NouveauIdle /\ TlsIdle /\ DestIdle /\ PfxIdle /\ VerIdle /\ ChkIdle /\
    RtldIdle /\ MpIdle /\ AskIdle /\ MapIdle /\ MkdIdle /\ TouchIdle /\
    TplIdle /\ ReplIdle /\ ManIdle /\ RtsIdle

SpecRename == InitRename /\ [][RenameNext]_vars

InitRemove ==
    RemoveInit /\ RenameIdle /\ RunIdle /\ UtilIdle /\ DkmsIdle /\
    NouveauIdle /\ TlsIdle /\ DestIdle /\ PfxIdle /\ VerIdle /\ ChkIdle /\
    RtldIdle /\ MpIdle /\ AskIdle /\ MapIdle /\ MkdIdle /\ TouchIdle /\
    TplIdle /\ ReplIdle /\ ManIdle /\ RtsIdle

SpecRemove == InitRemove /\ [][RemoveNext]_vars

InitRun ==
    RunInit /\ RenameIdle /\ RemoveIdle /\ UtilIdle /\ DkmsIdle /\
    NouveauIdle /\ TlsIdle /\ DestIdle /\ PfxIdle /\ VerIdle /\ ChkIdle /\
    RtldIdle /\ MpIdle /\ AskIdle /\ MapIdle /\ MkdIdle /\ TouchIdle /\
    TplIdle /\ ReplIdle /\ ManIdle /\ RtsIdle

SpecRun == InitRun /\ [][RunNext]_vars

InitUtil ==
    UtilInit /\ RenameIdle /\ RemoveIdle /\ RunIdle /\ DkmsIdle /\
    NouveauIdle /\ TlsIdle /\ DestIdle /\ PfxIdle /\ VerIdle /\ ChkIdle /\
    RtldIdle /\ MpIdle /\ AskIdle /\ MapIdle /\ MkdIdle /\ TouchIdle /\
    TplIdle /\ ReplIdle /\ ManIdle /\ RtsIdle

SpecUtil == InitUtil /\ [][UtilNext]_vars

InitDkms ==
    DkmsInit /\ RenameIdle /\ RemoveIdle /\ RunIdle /\ UtilIdle /\
    NouveauIdle /\ TlsIdle /\ DestIdle /\ PfxIdle /\ VerIdle /\ ChkIdle /\
    RtldIdle /\ MpIdle /\ AskIdle /\ MapIdle /\ MkdIdle /\ TouchIdle /\
    TplIdle /\ ReplIdle /\ ManIdle /\ RtsIdle

SpecDkms == InitDkms /\ [][DkmsNext]_vars

InitNouveau ==
    NouveauInit /\ RenameIdle /\ RemoveIdle /\ RunIdle /\ UtilIdle /\
    DkmsIdle /\ TlsIdle /\ DestIdle /\ PfxIdle /\ VerIdle /\ ChkIdle /\
    RtldIdle /\ MpIdle /\ AskIdle /\ MapIdle /\ MkdIdle /\ TouchIdle /\
    TplIdle /\ ReplIdle /\ ManIdle /\ RtsIdle

SpecNouveau == InitNouveau /\ [][NouveauNext]_vars

InitTls ==
    TlsInit /\ RenameIdle /\ RemoveIdle /\ RunIdle /\ UtilIdle /\
    DkmsIdle /\ NouveauIdle /\ DestIdle /\ PfxIdle /\ VerIdle /\ ChkIdle /\
    RtldIdle /\ MpIdle /\ AskIdle /\ MapIdle /\ MkdIdle /\ TouchIdle /\
    TplIdle /\ ReplIdle /\ ManIdle /\ RtsIdle

SpecTls == InitTls /\ [][TlsNext]_vars

InitDest ==
    DestInit /\ RenameIdle /\ RemoveIdle /\ RunIdle /\ UtilIdle /\
    DkmsIdle /\ NouveauIdle /\ TlsIdle /\ PfxIdle /\ VerIdle /\ ChkIdle /\
    RtldIdle /\ MpIdle /\ AskIdle /\ MapIdle /\ MkdIdle /\ TouchIdle /\
    TplIdle /\ ReplIdle /\ ManIdle /\ RtsIdle

SpecDest == InitDest /\ [][DestNext]_vars

InitPfx ==
    PfxInit /\ RenameIdle /\ RemoveIdle /\ RunIdle /\ UtilIdle /\
    DkmsIdle /\ NouveauIdle /\ TlsIdle /\ DestIdle /\ VerIdle /\ ChkIdle /\
    RtldIdle /\ MpIdle /\ AskIdle /\ MapIdle /\ MkdIdle /\ TouchIdle /\
    TplIdle /\ ReplIdle /\ ManIdle /\ RtsIdle

SpecPfx == InitPfx /\ [][PfxNext]_vars

InitVer ==
    VerInit /\ RenameIdle /\ RemoveIdle /\ RunIdle /\ UtilIdle /\
    DkmsIdle /\ NouveauIdle /\ TlsIdle /\ DestIdle /\ PfxIdle /\ ChkIdle /\
    RtldIdle /\ MpIdle /\ AskIdle /\ MapIdle /\ MkdIdle /\ TouchIdle /\
    TplIdle /\ ReplIdle /\ ManIdle /\ RtsIdle

SpecVer == InitVer /\ [][VerNext]_vars

InitChk ==
    ChkInit /\ RenameIdle /\ RemoveIdle /\ RunIdle /\ UtilIdle /\
    DkmsIdle /\ NouveauIdle /\ TlsIdle /\ DestIdle /\ PfxIdle /\ VerIdle /\
    RtldIdle /\ MpIdle /\ AskIdle /\ MapIdle /\ MkdIdle /\ TouchIdle /\
    TplIdle /\ ReplIdle /\ ManIdle /\ RtsIdle

SpecChk == InitChk /\ [][ChkNext]_vars

InitRtld ==
    RtldInit /\ RenameIdle /\ RemoveIdle /\ RunIdle /\ UtilIdle /\
    DkmsIdle /\ NouveauIdle /\ TlsIdle /\ DestIdle /\ PfxIdle /\ VerIdle /\
    ChkIdle /\ MpIdle /\ AskIdle /\ MapIdle /\ MkdIdle /\ TouchIdle /\
    TplIdle /\ ReplIdle /\ ManIdle /\ RtsIdle

SpecRtld == InitRtld /\ [][RtldNext]_vars

InitMp ==
    MpInit /\ RenameIdle /\ RemoveIdle /\ RunIdle /\ UtilIdle /\
    DkmsIdle /\ NouveauIdle /\ TlsIdle /\ DestIdle /\ PfxIdle /\ VerIdle /\
    ChkIdle /\ RtldIdle /\ AskIdle /\ MapIdle /\ MkdIdle /\ TouchIdle /\
    TplIdle /\ ReplIdle /\ ManIdle /\ RtsIdle

SpecMp == InitMp /\ [][MpNext]_vars

InitAsk ==
    AskInit /\ RenameIdle /\ RemoveIdle /\ RunIdle /\ UtilIdle /\
    DkmsIdle /\ AskCheckForNouveauInit /\ TlsIdle /\ DestIdle /\ PfxIdle /\
    VerIdle /\ ChkIdle /\ RtldIdle /\ MpIdle /\ MapIdle /\ MkdIdle /\
    TouchIdle /\ TplIdle /\ ReplIdle /\ ManIdle /\ RtsIdle

SpecAsk == InitAsk /\ [][AskNext]_vars

InitMap ==
    MapInit /\ RenameIdle /\ RemoveIdle /\ RunIdle /\ UtilIdle /\
    DkmsIdle /\ NouveauIdle /\ TlsIdle /\ DestIdle /\ PfxIdle /\ VerIdle /\
    ChkIdle /\ RtldIdle /\ MpIdle /\ AskIdle /\ MkdIdle /\ TouchIdle /\
    TplIdle /\ ReplIdle /\ ManIdle /\ RtsIdle

SpecMap == InitMap /\ [][MapNext]_vars

InitMkd ==
    MkdInit /\ RenameIdle /\ RemoveIdle /\ RunIdle /\ UtilIdle /\
    DkmsIdle /\ NouveauIdle /\ TlsIdle /\ DestIdle /\ PfxIdle /\ VerIdle /\
    ChkIdle /\ RtldIdle /\ MpIdle /\ AskIdle /\ MapIdle /\ TouchIdle /\
    TplIdle /\ ReplIdle /\ ManIdle /\ RtsIdle

SpecMkd == InitMkd /\ [][MkdNext]_vars

InitTouch ==
    TouchInit /\ RenameIdle /\ RemoveIdle /\ RunIdle /\ UtilIdle /\
    DkmsIdle /\ NouveauIdle /\ TlsIdle /\ DestIdle /\ PfxIdle /\ VerIdle /\
    ChkIdle /\ RtldIdle /\ MpIdle /\ AskIdle /\ MapIdle /\ MkdIdle /\
    TplIdle /\ ReplIdle /\ ManIdle /\ RtsIdle

SpecTouch == InitTouch /\ [][TouchNext]_vars

InitTpl ==
    TplInit /\ RenameIdle /\ RemoveIdle /\ RunIdle /\ UtilIdle /\
    DkmsIdle /\ NouveauIdle /\ TlsIdle /\ DestIdle /\ PfxIdle /\ VerIdle /\
    ChkIdle /\ RtldIdle /\ MpIdle /\ AskIdle /\ MapIdle /\ MkdIdle /\
    TouchIdle /\ ReplIdle /\ ManIdle /\ RtsIdle

SpecTpl == InitTpl /\ [][TplNext]_vars

InitRepl ==
    ReplInit /\ RenameIdle /\ RemoveIdle /\ RunIdle /\ UtilIdle /\
    DkmsIdle /\ NouveauIdle /\ TlsIdle /\ DestIdle /\ PfxIdle /\ VerIdle /\
    ChkIdle /\ RtldIdle /\ MpIdle /\ AskIdle /\ MapIdle /\ MkdIdle /\
    TouchIdle /\ TplIdle /\ ManIdle /\ RtsIdle

SpecRepl == InitRepl /\ [][ReplNext]_vars

\* the loop of nv_strreplace runs on until it is left
SpecReplFair == SpecRepl /\ WF_vars(ReplNext)

InitMan ==
    ManInit /\ RenameIdle /\ RemoveIdle /\ RunIdle /\ UtilIdle /\
    DkmsIdle /\ NouveauIdle /\ TlsIdle /\ DestIdle /\ PfxIdle /\ VerIdle /\
    ChkIdle /\ RtldIdle /\ MpIdle /\ AskIdle /\ MapIdle /\ MkdIdle /\
    TouchIdle /\ TplIdle /\ ReplIdle /\ RtsIdle

SpecMan == InitMan /\ [][ManNext]_vars

InitRts ==
    RtsInit /\ RenameIdle /\ RemoveIdle /\ RunIdle /\ UtilIdle /\
    DkmsIdle /\ NouveauIdle /\ TlsIdle /\ DestIdle /\ PfxIdle /\ VerIdle /\
    ChkIdle /\ RtldIdle /\ MpIdle /\ AskIdle /\ MapIdle /\ MkdIdle /\
    TouchIdle /\ TplIdle /\ ReplIdle /\ ManIdle

SpecRts == InitRts /\ [][RtsNext]_vars

\* ---- properties -----------------------------------------------------------
\* C1: during nvrename(src, dst) of an existing src, at least one of src
\* and dst always holds the complete original contents; src is unlinked only
\* after copy_file returned success; a failed copy leaves src in place and
\* the call returns failure; a failed unlink returns failure with both src
\* and a complete dst present.
C1_NvrenameNeverLosesData ==
    (rn_pc # "idle" /\ orig.exists) =>
        /\ Holds("src", orig) \/ Holds("dst", orig)
        /\ ~fs.src.exists => copy_ret = T
        /\ copy_ret = F => Holds("src", orig)
        /\ (copy_ret = F /\ rn_pc = "returned") => rn_ret = F
        /\ rn_fail = "unlink" =>
              rn_ret = F /\ Holds("src", orig) /\ Holds("dst", orig)

\* a non-empty file was copied in full and the final unlink failed
C1_Witness ==
    /\ rn_pc = "returned"
    /\ rn_fail = "unlink"
    /\ Len(orig.data) = MaxSize
    /\ Holds("dst", orig)

\* C2: remove_directory tolerates partial failure.  In every directory
\* whose enumeration ran to its end (no lstat/opendir failure cut it short),
\* each file whose unlink can succeed has been unlinked and each failing
\* unlink has been reported; rmdir of a directory that is still not empty
\* fails and that call returns failure; a call returns success only if its
\* victim directory was removed.
C2_RemoveDirectoryPartialFailure ==
    \A d \in Dirs :
        rd_ret[d] # NONE =>
            /\ rd_fail[d] \notin {"lstat", "notdir", "opendir"} =>
                  \A n \in Nodes :
                      (Parent(n) = d /\ tree[n] = "file") =>
                          n \in locked /\ <<"unlink", n>> \in rd_errors
            /\ (rd_fail[d] \notin {"lstat", "notdir", "opendir"}
                    /\ Entries(d) # {}) =>
                  /\ rd_ret[d] = F
                  /\ rd_fail[d] = "rmdir"
                  /\ tree[d] = "dir"
            /\ rd_ret[d] = T => tree[d] = "none"

\* the victim held a removable and an unremovable file: the call has
\* returned failure, the removable file is gone, the other one is reported
C2_Witness ==
    /\ rd_stack = <<>>
    /\ rd_ret["v"] = F
    /\ rd_fail["v"] = "rmdir"
    /\ tree["a"] = "none"
    /\ "a" \notin locked
    /\ tree["b"] = "file"
    /\ <<"unlink", "b">> \in rd_errors

\* C3: with the SIGWINCH workaround enabled, SIGWINCH is ignored when the
\* child is spawned and for the whole read loop, and once the child's output
\* has been read to end-of-file the disposition in force before the call is
\* back, whatever the child's exit status.
C3_SigwinchIgnoredThenRestored ==
    rc_args.workaround =>
        /\ child_disp # NONE => child_disp = SIG_IGN
        /\ rc_pc \in {"read", "restore"} => sigwinch = SIG_IGN
        /\ (rc_pc = "returned" /\ rc_exit # NoStatus) => sigwinch = disp0

\* a handler was installed, the child wrote output and failed, and the
\* handler is installed again after the call
C3_Witness ==
    /\ rc_args.workaround
    /\ rc_pc = "returned"
    /\ rc_exit = 1
    /\ rc_chunks > 0
    /\ disp0 = HANDLER
    /\ sigwinch = HANDLER

\* C4: with the workaround enabled and a SIGWINCH handler installed before
\* the call, the handler has been called once for every chunk read so far,
\* for every combination of output, status and redirect (also status = 0).
C4_HandlerCalledOncePerChunk ==
    (rc_args.workaround /\ disp0 = HANDLER /\ rc_pc \in {"read", "restore", "returned"})
        => handler_calls = rc_chunks

\* C5: find_system_utils searches the required utilities in the order
\* ldconfig, ldd, ld, objcopy, grep, dmesg, tail, cut, tr, sed and fails at
\* the first one missing, with one error naming it and its package and with
\* nothing searched after it; a missing optional utility only leaves its
\* slot NULL, and the call fails for no other reason.
C5_RequiredOrder ==
    <<"ldconfig", "ldd", "ld", "objcopy", "grep", "dmesg", "tail", "cut", "tr", "sed">>

C5_PackageOf ==
    [ldconfig |-> "glibc", ldd |-> "glibc", ld |-> "binutils",
     objcopy |-> "binutils", grep |-> "grep", dmesg |-> "util-linux",
     tail |-> "coreutils", cut |-> "coreutils", tr |-> "coreutils", sed |-> "sed"]

C5_FindSystemUtilsFailFast ==
    LET n == Len(fsu_searched)
        nreq == IF n < 10 THEN n ELSE 10
    IN
    /\ SubSeq(fsu_searched, 1, nreq) = SubSeq(C5_RequiredOrder, 1, nreq)
    /\ \A k \in 1..n : k < n => utils[k - 1] # NULL \/ k > 10
    /\ fsu_ret = F <=> (n \in 1..10 /\ utils[n - 1] = NULL)
    /\ fsu_ret = F =>
          /\ fsu_pc = "returned"
          /\ fsu_errors = <<[util |-> C5_RequiredOrder[n],
                             package |-> C5_PackageOf[C5_RequiredOrder[n]]]>>
          /\ \A k \in n..15 : utils[k] = UNSET
    /\ fsu_ret # F => fsu_errors = <<>>
    /\ fsu_ret = T =>
          /\ n = 16
          /\ \A k \in 0..9 : utils[k] \notin {NULL, UNSET}
          /\ \A k \in 10..15 : utils[k] # UNSET

\* `sed`, the last required utility, is the first one missing
C5_WitnessRequiredMissing ==
    /\ fsu_ret = F
    /\ Len(fsu_searched) = 10
    /\ fsu_errors = <<[util |-> "sed", package |-> "sed"]>>

\* the verbs of the dkms commands executed so far (calls in which dkms was
\* not found execute nothing)
C6_Verbs(calls) ==
    [k \in 1..Len(calls) |-> calls[k].cmdline[2]]

\* C6: dkms_install_module runs add, build, install in this order, each at
\* most once; a verb is run only if every earlier verb succeeded; after the
\* first failing step nothing more is executed and the call returns failure;
\* it returns success only if all three succeeded.
C6_DkmsInstallOrder ==
    dk_op = "install_module" =>
        LET n == Len(dk_calls)
            executed == SelectSeq(dk_calls, LAMBDA c : c.found)
        IN
        /\ n <= 3
        /\ C6_Verbs(executed) = SubSeq(<<" add", " build", " install">>, 1, Len(executed))
        /\ \A k \in 1..(n - 1) : dk_calls[k].ret = T
        /\ (n > 0 /\ dk_calls[n].ret = F) => dk_pc = "returned" /\ dk_ret = F
        /\ dk_ret = F => dk_calls[n].ret = F
        /\ dk_ret = T <=> (n = 3 /\ \A k \in 1..3 : dk_calls[k].ret = T)
        /\ dk_pc = "returned" => dk_ret \in {T, F}

\* add succeeded, build failed, and the call has returned
C6_WitnessBuildFails ==
    /\ dk_op = "install_module"
    /\ dk_pc = "returned"
    /\ Len(dk_calls) = 2
    /\ dk_calls[2].found
    /\ dk_calls[2].ret = F

Contains(seq, piece) == \E k \in 1..Len(seq) : seq[k] = piece

\* C7: every command dkms_remove_module executes, with or without a
\* version, contains `--all` and no `-k <kernel>` option.
C7_RemoveTargetsAllKernels ==
    dk_op = "remove_module" =>
        \A k \in 1..Len(dk_calls) :
            dk_calls[k].found =>
                /\ Contains(dk_calls[k].cmdline, " --all")
                /\ ~Contains(dk_calls[k].cmdline, " -k ")

\* C8: dkms_module_installed reports "installed" iff dkms is found and the
\* status query produced non-empty output; when dkms is not found it
\* reports "not installed" and no error.
C8_InstalledIffFoundAndOutput ==
    (dk_op = "module_installed" /\ dk_pc = "returned") =>
        LET r == dk_calls[1] IN
        /\ dk_ret = T <=> (r.found /\ r.out # NullStr /\ r.out # <<>>)
        /\ ~r.found => dk_ret = F /\ dk_errors = <<>>

\* C9: check_for_nouveau returns success iff the check is disabled or
\* Nouveau is not detected; once Nouveau is detected it returns failure on
\* every path, whatever the answer and whether or not files were written.
C9_SuccessIffNoNouveau ==
    nv_pc = "returned" =>
        /\ nv_ret = T <=> (nv_op.no_nouveau_check \/ ~NouveauIsPresent)
        /\ nv_ret = F <=> (~nv_op.no_nouveau_check /\ NouveauIsPresent)

\* Nouveau was detected, the user said yes, files were written, and the
\* call has returned failure
C9_Witness ==
    /\ nv_pc = "returned"
    /\ nv_ret = F
    /\ nv_prompts # <<>>
    /\ nv_prompts[1].answer
    /\ Len(nv_written) = 2

C10_MatchingFileAtEntry ==
    \E d \in DirNames :
        /\ modprobe_d0[d].file
        /\ modprobe_d0[d].readable
        /\ modprobe_d0[d].contents = BlacklistTemplate

\* C10: with Nouveau detected and a blacklist file with the expected
\* checksum in at least one modprobe directory, check_for_nouveau fails
\* without prompting and without writing any file; the prompt is reached and
\* files are written only when no matching file was there.
C10_NoPromptWhenBlacklisted ==
    /\ (nv_pc \notin {"idle", "check"} /\ nv_ret # T /\ C10_MatchingFileAtEntry) =>
          /\ nv_pc \in {"present", "returned"}
          /\ nv_pc = "returned" => nv_ret = F
          /\ nv_prompts = <<>>
          /\ nv_written = <<>>
          /\ modprobe_d = modprobe_d0
    /\ (nv_prompts # <<>> \/ nv_written # <<>> \/ modprobe_d # modprobe_d0) =>
          ~C10_MatchingFileAtEntry

\* only the second directory held a matching file; the call failed outright
C10_Witness ==
    /\ nv_pc = "returned"
    /\ nv_ret = F
    /\ ComputeCrc(modprobe_d0["/etc/modprobe.d"].contents) # DISABLE_NOUVEAU_FILE_CKSUM
    /\ modprobe_d0["/usr/lib/modprobe.d"] = ConfFile(TRUE, BlacklistTemplate)
    /\ nv_prompts = <<>>

\* C11: with the native TLS choice forced (and, on a 64-bit build, the
\* compat32 choice forced too), a second call of select_tls_class leaves the
\* TLS fields and every manifest entry as the first call left them, the
\* forced bits are still set, and no call wrote or executed the test program.
C11_Forced ==
    /\ TLS_LIB_TYPE_FORCED \in tls_op0.which_tls
    /\ tls_build.NV_X86_64 => TLS_LIB_TYPE_FORCED \in tls_op0.which_tls_compat32

C11_SelectTlsClassIdempotentWhenForced ==
    (C11_Forced /\ tls_calls >= 1) =>
        /\ tls_calls >= 2 => <<tls_op, tls_entries>> = tls_after1
        /\ TLS_LIB_TYPE_FORCED \in tls_op.which_tls
        /\ tls_build.NV_X86_64 => TLS_LIB_TYPE_FORCED \in tls_op.which_tls_compat32
        /\ tls_written = 0
        /\ tls_ran = 0

\* a second forced-classic call on a testing 64-bit build, after the first
\* call invalidated a new-TLS entry
C11_Witness ==
    /\ tls_calls = 2
    /\ tls_build.NV_X86_64 /\ tls_build.NV_TLS_TEST /\ tls_build.have_test
    /\ tls_op0.which_tls = FORCE_CLASSIC_TLS
    /\ tls_op0.which_tls_compat32 = FORCE_NEW_TLS
    /\ \E i \in 1..Len(tls_entries) :
        tls_entries[i].flags \cap FILE_TYPE_MASK = {} /\ tls_entries[i].dst = NULL

\* the roles set_destinations installs under the OpenGL prefix whatever the
\* environment is
C12_OpenGLRoles ==
    {"FILE_TYPE_OPENGL_LIB", "FILE_TYPE_OPENGL_SYMLINK", "FILE_TYPE_TLS_LIB",
     "FILE_TYPE_TLS_SYMLINK", "FILE_TYPE_LIBGL_LA", "FILE_TYPE_OPENGL_HEADER",
     "FILE_TYPE_DOCUMENTATION"}

\* the manifest a first call leaves when only the OpenGL prefix is q
C12_OtherRun(q) ==
    SetDestinationsFrom(dest_build, [dest_op EXCEPT !.opengl_prefix = q],
                        dest_xdg0, dest_entries0, 1).entries

\* within one call, entries equal in flags, path and name get equal
\* destinations
C12_EqualEntriesEqualDst ==
    \A i, j \in 1..Len(dest_entries) :
        (/\ dest_entries0[i].flags = dest_entries0[j].flags
         /\ dest_entries0[i].path = dest_entries0[j].path
         /\ dest_entries0[i].name = dest_entries0[j].name)
        => dest_entries[i].dst = dest_entries[j].dst

\* C12 as stated: destinations are a function of the entry and the options,
\* and a run that differs only in the OpenGL prefix differs only in the
\* destinations of OpenGL-routed entries, a .desktop entry counting as one
\* only when XDG_DATA_DIRS is unset.
C12_OnlyOpenGLRoutedChange_Unset ==
    dest_calls = 1 =>
        /\ C12_EqualEntriesEqualDst
        /\ \A i \in 1..Len(dest_entries) :
            C12_OtherRun(Str("/q"))[i].dst # dest_entries[i].dst =>
                \/ dest_entries0[i].flags \cap C12_OpenGLRoles # {}
                \/ /\ "FILE_TYPE_DOT_DESKTOP" \in dest_entries0[i].flags
                   /\ dest_xdg0 = NullStr

\* C12 amended: as stated, with a .desktop entry counting as OpenGL-routed
\* when XDG_DATA_DIRS is unset or holds no non-empty field.
C12_OnlyOpenGLRoutedChange ==
    dest_calls = 1 =>
        /\ C12_EqualEntriesEqualDst
        /\ \A i \in 1..Len(dest_entries) :
            C12_OtherRun(Str("/q"))[i].dst # dest_entries[i].dst =>
                \/ dest_entries0[i].flags \cap C12_OpenGLRoles # {}
                \/ /\ "FILE_TYPE_DOT_DESKTOP" \in dest_entries0[i].flags
                   /\ \/ dest_xdg0 = NullStr
                      \/ \A k \in 1..Len(dest_xdg0) : dest_xdg0[k] = ":"

\* an OpenGL library and an X library resolved in one call: the first
\* follows the OpenGL prefix, the second does not
C12_Witness ==
    /\ dest_calls = 1
    /\ "FILE_TYPE_OPENGL_LIB" \in dest_entries0[1].flags
    /\ "FILE_TYPE_XLIB_SHARED_LIB" \in dest_entries0[2].flags
    /\ C12_OtherRun(Str("/q"))[1].dst # dest_entries[1].dst
    /\ C12_OtherRun(Str("/q"))[2].dst = dest_entries[2].dst
    /\ dest_entries[2].dst # NullStr

\* "the path ends in a `lib` component"
C13_EndsInLib(p) ==
    /\ Len(p) >= 3
    /\ SubSeq(p, Len(p) - 2, Len(p)) = LIB
    /\ Len(p) > 3 => p[Len(p) - 3] = "/"

\* "the path has a `lib` component at position k with more after it"
C13_LibThenMore(p, k) ==
    /\ k + 3 <= Len(p)
    /\ SubSeq(p, k, k + 3) = <<"l", "i", "b", "/">>
    /\ k > 1 => p[k - 1] = "/"

C14_Normalized(p) == p # NullStr /\ (p = <<>> \/ p[Len(p)] # "/")

\* C14: once get_prefixes has returned success, the X prefix, the X module
\* path, the OpenGL prefix, the installer prefix, the utility prefix and, on
\* a 64-bit build, a compat32 prefix that is set, have no trailing slash.
C14_PrefixesNormalizedOnSuccess ==
    (pf_pc = "returned" /\ pf_ret = T) =>
        /\ C14_Normalized(pf_op.xfree86_prefix)
        /\ C14_Normalized(pf_op.x_module_path)
        /\ C14_Normalized(pf_op.opengl_prefix)
        /\ C14_Normalized(pf_op.installer_prefix)
        /\ C14_Normalized(pf_op.utility_prefix)
        /\ (pf_build /\ pf_op.compat32_prefix # NullStr) =>
                C14_Normalized(pf_op.compat32_prefix)

\* C15: when get_prefixes returns failure because the answer for a prefix
\* was not confirmed, that prefix still holds the value it had before the
\* prompt, and a prefix holds an answer only if confirm_path succeeded for it.
C15_AnswerStoredOnlyWhenConfirmed ==
    (pf_pc = "returned" /\ pf_ret = F /\ pf_failed # NONE) =>
        /\ pf_failed # "x_module_path" => pf_op[pf_failed] = pf_op0[pf_failed]
        /\ pf_op[pf_failed] \notin {<<"/", "n">>, <<"/", "n", "/">>}

\* "positions i..j of s hold a run of digits and periods that starts with a
\* digit, is at least 5 characters long, follows the start of the string,
\* whitespace or `(` and is followed by the end, whitespace or `)`"
C16_VersionRun(s, i, j) ==
    /\ j - i + 1 >= 5
    /\ IsDigit(s[i])
    /\ \A k \in i..j : IsDigit(s[k]) \/ s[k] = "."
    /\ i = 1 \/ IsSpace(s[i - 1]) \/ s[i - 1] = "("
    /\ j = Len(s) \/ IsSpace(s[j + 1]) \/ s[j + 1] = ")"

\* the reference: the first such run, else the first match of the old
\* format, else nothing
C16_Reference(s) ==
    LET runs == {p \in (1..Len(s)) \X (1..Len(s)) : C16_VersionRun(s, p[1], p[2])}
        old == {x \in 1..Len(s) : OldFormatAt(s, x)}
    IN IF runs # {}
       THEN LET p == CHOOSE p \in runs : \A q \in runs : p[1] <= q[1]
            IN SubSeq(s, p[1], p[2])
       ELSE IF old # {}
       THEN LET x == CHOOSE x \in old : \A y \in old : x <= y
            IN SubSeq(s, x, x + 7)
       ELSE NullStr

\* C16: for every input string extract_version_string returns what the
\* reference returns.
C16_ExtractVersionMatchesReference ==
    (ver_pc = "returned" /\ ver_str # NullStr) =>
        ver_ret = C16_Reference(ver_str)

\* "entry i is a symlink entry or an installable-file entry"
C17_Checked(i) ==
    \/ chk_entries[i] \cap FILE_TYPE_SYMLINK # {}
    \/ chk_entries[i] \cap GetInstallableFileMask(chk_op) # {}

\* C17: when check_installed_files_from_package has returned, every entry
\* was visited exactly once, a warning was issued for exactly the checked
\* entries whose link or file is not as installed, and the verdict logged
\* is "failed" if and only if there is such an entry.
C17_EveryEntryVisitedOnce ==
    chk_pc = "returned" =>
        /\ \A i \in 1..Len(chk_entries) : chk_visits[i] = 1
        /\ \A i \in 1..Len(chk_entries) :
            (\E k \in 1..Len(chk_warned) : chk_warned[k] = i)
                <=> (C17_Checked(i) /\ chk_disk[i] # "ok")
        /\ chk_log = "failed" <=>
                \E i \in 1..Len(chk_entries) :
                    C17_Checked(i) /\ chk_disk[i] # "ok"
        /\ chk_log \in {"passed", "failed"}

\* a scan whose first entry, a symlink, failed and whose second entry, a
\* file, was still checked and reported
C17_Witness ==
    /\ chk_pc = "returned"
    /\ chk_log = "failed"
    /\ chk_entries[1] = {"FILE_TYPE_OPENGL_SYMLINK"}
    /\ chk_entries[2] = {"FILE_TYPE_OPENGL_LIB"}
    /\ chk_warned = <<1, 2>>

\* "the ui was sent a message of this kind about entry i"
C18_Said(kind, i) ==
    \E k \in 1..Len(rt_ui) : rt_ui[k] = [kind |-> kind, entry |-> i]

\* C18: of the entries the runtime-linker test has compared, one resolved to
\* another file is a hard failure (an error about it, the scan stopped there
\* and the result FALSE) for native and compat32 alike; an unresolved one is
\* a hard failure when native, and when compat32 only a warning after which
\* the scan goes on.
C18_RtldVerdictPerEntry ==
    \A i \in rt_compared :
        /\ rt_results[i] = "other" =>
                (C18_Said("error", i) /\ rt_i = i /\ rt_ret = F)
        /\ (rt_results[i] = "not_found" /\ ~rt_compat) =>
                (C18_Said("error", i) /\ rt_i = i /\ rt_ret = F)
        /\ (rt_results[i] = "not_found" /\ rt_compat) =>
                (C18_Said("warn", i) /\ ~C18_Said("error", i) /\ rt_i > i)

\* C19: when /proc/sys/kernel/modprobe cannot be read and the modprobe found
\* is not /sbin/modprobe, check_proc_modprobe_path warns and returns success
\* if /sbin/modprobe exists and is executable, and reports an error and
\* returns failure only if it does not.
C19_FallbackChecksSbinModprobe ==
    (mp_pc = "returned" /\ mp_proc = NULL /\ mp_util # "/sbin/modprobe") =>
        IF "/sbin/modprobe" \in mp_exec
        THEN mp_ui = "warn" /\ mp_ret = T
        ELSE mp_ui = "error" /\ mp_ret = F

\* "the routine called has returned failure"
C20_Failed ==
    IF ask_routine = "check_for_nouveau" THEN nv_ret = F ELSE ask_ret = F

\* "the routine called has returned"
C20_Returned ==
    IF ask_routine = "check_for_nouveau" THEN nv_pc = "returned"
    ELSE ask_pc = "returned"

\* "the routine called was answered `no` at one of its questions"
C20_AnsweredNo ==
    \/ \E k \in 1..Len(ask_answers) : ask_answers[k].answer = "no"
    \/ \E k \in 1..Len(nv_prompts) : ~nv_prompts[k].answer

\* C20 as stated: whichever of the five routines asked, once it has returned
\* after a "no" it has returned failure.
C20_NoAlwaysFails ==
    (ask_routine # NONE /\ C20_Returned /\ C20_AnsweredNo) => C20_Failed

\* C20 amended: a "no" makes confirm_path, check_for_existing_rpms and
\* check_for_nouveau return failure; check_runlevel asks whether to quit, so
\* it fails on "yes" and succeeds on "no"; run_distro_hook succeeds on "no",
\* the script being skipped.
C20_NoFailsWhereItCancels ==
    (ask_routine # NONE /\ C20_Returned) =>
        /\ (/\ ask_routine \in {"confirm_path", "check_for_existing_rpms",
                                "check_for_nouveau"}
            /\ C20_AnsweredNo) => C20_Failed
        /\ (ask_routine = "check_runlevel" /\ ask_answers # <<>>) =>
                (ask_ret = F <=> ask_answers[1].answer = "yes")
        /\ (ask_routine = "run_distro_hook" /\ C20_AnsweredNo) => ask_ret = T

\* the second rpm was declined after the first was agreed to
C20_Witness ==
    /\ ask_routine = "check_for_existing_rpms"
    /\ ask_pc = "returned"
    /\ ask_answers = <<Asked("check_for_existing_rpms", TRUE),
                       Asked("check_for_existing_rpms", FALSE)>>
    /\ ask_ret = F

\* C21: once copy_file, write_temp_file, process_template_file or
\* get_license_acceptance has returned, on any path, no mapping the call
\* made is left without having been unmapped.
C21_NoMappingLeftAfterReturn ==
    mm_pc = "returned" => mm_maps = {}

\* the non-empty prefixes of the path given that end before a slash or at
\* the end of the path
C22_Prefixes ==
    {SubSeq(mk_path, 1, k) : k \in {j \in 1..Len(mk_path) :
                                      j = Len(mk_path) \/ mk_path[j + 1] = "/"}}

\* C22: for a non-empty path mkdir_recursive fails only when the creation of
\* a missing prefix directory failed, directories that exist (the root, the
\* path itself, with or without trailing slashes) being no error, and after
\* a success every prefix of the path is a directory.
C22_MkdirPSemantics ==
    (mk_pc = "returned" /\ mk_path # <<>>) =>
        /\ mk_ret = F =>
              /\ mk_failed \in C22_Prefixes
              /\ ~DirectoryExists(mk_dirs0, mk_failed)
        /\ mk_ret = T =>
              \A p \in C22_Prefixes : DirectoryExists(mk_dirs, p)

\* C23: a top-level call of touch_directory that succeeded asked for the
\* time exactly once, and every file and directory in the tree carries that
\* one value.
C23_TimeSampledOnce ==
    td_ret = T =>
        /\ Len(td_samples) = 1
        /\ \A n \in Nodes \ {"v"} :
              td_tree[n] # "none" => td_times[n] = td_samples[1]

\* the indices of the template entries present when the pass began
C24_Templates ==
    {i \in 1..Len(tpl_entries0) : tpl_role \in tpl_entries0[i].flags}

\* C24: a pass of process_libGL_la_files or process_dot_desktop_files looks
\* at exactly the entries present when it began, each once and in order;
\* the manifest grows by at most the number of templates among them; every
\* such template ends without role and without destination; every entry
\* added carries the class bits of a template plus the template role, its
\* mode, path and name, and the generated file.
C24_TemplatePassBounded ==
    tpl_pc = "returned" =>
        /\ tpl_visited = [i \in 1..Len(tpl_entries0) |-> i]
        /\ Len(tpl_entries) >= Len(tpl_entries0)
        /\ Len(tpl_entries) - Len(tpl_entries0) <= Cardinality(C24_Templates)
        /\ \A i \in C24_Templates :
              /\ tpl_entries[i].flags \cap FILE_TYPE_MASK = {}
              /\ tpl_entries[i].dst = NullStr
        /\ \A k \in (Len(tpl_entries0) + 1)..Len(tpl_entries) :
              \E i \in C24_Templates :
                 /\ tpl_entries[k].flags =
                        (tpl_entries0[i].flags \cap FILE_CLASS_MASK)
                        \cup {tpl_role}
                 /\ tpl_entries[k].mode = tpl_entries0[i].mode
                 /\ tpl_entries[k].path = tpl_entries0[i].path
                 /\ tpl_entries[k].name = tpl_entries0[i].name
                 /\ tpl_entries[k].file = "tmpfile"

\* a pass that found two templates and generated a file for one of them,
\* a compat32 one
C24_Witness ==
    /\ tpl_pc = "returned"
    /\ Cardinality(C24_Templates) = 2
    /\ Len(tpl_entries) = Len(tpl_entries0) + 1
    /\ FILE_CLASS_COMPAT32 \in tpl_entries[Len(tpl_entries)].flags
    /\ tpl_entries[1].dst = NullStr
    /\ tpl_entries0[1].dst # NullStr

\* "the last call's test failed for the variant of class arch"
C25_Failed(arch) ==
    IF arch = FILE_CLASS_NATIVE THEN tls_verdict.native = F
    ELSE tls_verdict.compat32 = F

\* "entry i was new-TLS and of a variant whose test failed in the last call"
C25_Hit(i) ==
    /\ FILE_CLASS_NEW_TLS \in tls_before[i].flags
    /\ \E arch \in {FILE_CLASS_NATIVE, FILE_CLASS_COMPAT32} :
          arch \in tls_before[i].flags /\ C25_Failed(arch)

\* C25: a call of select_tls_class pins each variant whose test failed to
\* classic TLS and each variant whose test passed to new TLS; it clears role
\* and destination of exactly the new-TLS entries of a failed variant and
\* leaves every other entry as it was, so that nothing changes when the
\* tests pass.
C25_FailedVariantInvalidated ==
    tls_calls >= 1 =>
        /\ tls_verdict.native = F => TLS_LIB_CLASSIC_TLS \in tls_op.which_tls
        /\ tls_verdict.native = T =>
              TLS_LIB_CLASSIC_TLS \notin tls_op.which_tls
        /\ tls_verdict.compat32 = F =>
              TLS_LIB_CLASSIC_TLS \in tls_op.which_tls_compat32
        /\ tls_verdict.compat32 = T =>
              TLS_LIB_CLASSIC_TLS \notin tls_op.which_tls_compat32
        /\ Len(tls_entries) = Len(tls_before)
        /\ \A i \in 1..Len(tls_entries) :
              IF C25_Hit(i)
              THEN /\ tls_entries[i].flags = tls_before[i].flags \ FILE_TYPE_MASK
                   /\ tls_entries[i].dst = NULL
              ELSE tls_entries[i] = tls_before[i]

\* the native test failed and the compat32 test passed: a native new-TLS
\* entry lost role and destination, a compat32 new-TLS entry kept both
C25_Witness ==
    /\ tls_calls = 1
    /\ tls_verdict = [native |-> F, compat32 |-> T]
    /\ tls_op0.which_tls = {}
    /\ tls_before[1].flags = {"FILE_TYPE_TLS_LIB", FILE_CLASS_NEW_TLS,
                              FILE_CLASS_NATIVE}
    /\ tls_before[1].dst = "dst"
    /\ tls_entries[1] = [flags |-> {FILE_CLASS_NEW_TLS, FILE_CLASS_NATIVE},
                         dst |-> NULL]
    /\ FILE_CLASS_COMPAT32 \in tls_before[2].flags
    /\ FILE_CLASS_NEW_TLS \in tls_before[2].flags
    /\ tls_entries[2] = tls_before[2]

\* C26: with the SIGWINCH workaround enabled, whenever run_command has
\* returned, on any path, the SIGWINCH disposition is the one in force
\* before the call.
C26_SigwinchRestoredOnEveryReturn ==
    (rc_args.workaround /\ rc_pc = "returned") => sigwinch = disp0

\* C27: for every source, token and replacement, the empty token and a
\* replacement that contains the token included, nv_strreplace comes to its
\* return.
C27_StrreplaceTerminates == <>(sr_pc = "returned")

\* the manifest as the first call left it
C28_AfterFirstCall ==
    SetDestinationsFrom(dest_build, dest_op, dest_xdg0, dest_entries0,
                        1).entries

\* C28: with the options unchanged, a second call of set_destinations leaves
\* the path and the destination of every entry as the first call left them.
C28_SetDestinationsIdempotent ==
    dest_calls = 2 =>
        \A i \in 1..Len(dest_entries) :
            /\ dest_entries[i].path = C28_AfterFirstCall[i].path
            /\ dest_entries[i].dst = C28_AfterFirstCall[i].dst

\* C29: whatever manifest operations have run, an entry whose role is
\* cleared has no destination.
C29_InvalidatedHasNoDst ==
    \A i \in 1..Len(man_entries) :
        man_entries[i].flags \cap FILE_TYPE_MASK = {} =>
            man_entries[i].dst = NullStr

\* C30: remove_trailing_slashes accesses no index below 0 of the string it
\* is given, whatever the string.
C30_StaysInsideString == rts_low >= 0

====
